---- MODULE Spec2Model ----
(***************************************************************************)
(* Model of playwright-mcp/ws_server.py (PlaywrightWebSocketServer): the   *)
(* session registry, the browser-context pool, the ownership map, the      *)
(* per-connection handler with its command dispatcher, and the idle sweep. *)
(*                                                                         *)
(* The server runs on one asyncio event loop, so the code between two      *)
(* awaits that suspend is one atomic step.  Every action below is such a   *)
(* segment; pc[p] names the await a flow is suspended at.  websocket.send  *)
(* is folded into the segment that issues it: it touches only the          *)
(* receiving connection's transport, delivers when the transport is open   *)
(* and raises when it is closed.  `rcv` and `sent` label the last step:    *)
(* the message it read and the envelopes it put on the wire, for an        *)
(* observer of the wire (`observe`); the server reads neither.             *)
(***************************************************************************)
EXTENDS Naturals, Integers, Sequences, FiniteSets, TLC

\* ------------------------------------------------------------------ bounds
NumConns == 2          \* connections the model accepts
MaxSid   == 3          \* session ids handed out
LifeSids == 2          \* session ids handed out in the life-cycle and dispatcher specifications
MaxCtx   == 3          \* browser contexts the provider creates
NumIds   == 1          \* distinct request ids clients use
MaxPath  == 3          \* segments of an artifact path
MaxAttempts == 3       \* attempts of a retry policy
MaxPages == 3          \* pages a context has open at a time

\* ------------------------------------------------------- program constants
BROWSER_POOL_SIZE == 1
SESSION_TIMEOUT   == 1

Conns   == 1..NumConns
SWEEPER == 0
MAIN    == NumConns + 1
Procs   == {SWEEPER} \cup Conns \cup {MAIN}
Sids    == 1..MaxSid
Ctxs    == 1..MaxCtx
Ids     == 1..NumIds

VARIABLES
    env,                  \* the configuration read from the environment
    observe,              \* whether the wire is observed (rcv and sent are recorded)
    phase,                \* "constructed" | "serving" | "stopping" | "stopped"
    artifact,             \* the last artifact request and what answered it
    close_code,           \* the code of the close frame the server sent, per connection
    shutdown,             \* stop(): the sessions and pooled contexts it has still to
                          \* close, and what it has closed of browser and provider
    retry,                \* one call of the client library's async_retry: its policy,
                          \* loop variables, position, calls so far and result
    reset,                \* one browser context followed through the pool and its
                          \* sessions: its pages and cookies, and _reset_context's
                          \* position, page list and the steps it has attempted
    storage,              \* workspaces, their state.json files, the storage state of
                          \* each context, whether it was created from an imported
                          \* state, and what an import has loaded
    sessions,             \* keys of self.sessions
    sessCtx,              \* BrowserSession.context, per session object
    pool_eligible,        \* metadata["pool_eligible"]
    event_stream_enabled, \* metadata["event_stream_enabled"]
    idle,                 \* time.time() - last_used of a registered session,
                          \* saturating above the timeout
    ctxState,             \* "none" | "open" | "closed" per browser context
    nextCtx, nextSid,     \* fresh context / session identifiers
    context_pool,         \* self._context_pool (a list; pop takes the last)
    pool_lock,            \* holder of self._pool_lock, or NoLock
    session_owners,       \* self._session_owners: session id -> set of connections
    client_sessions,      \* self.client_sessions: connection -> implicit session (0: none)
    pc, sid, ctx, ret,    \* per flow: suspension point, session and context in hand, caller
    expired,              \* the sweep's list of expired session ids still to close
    transport,            \* "open" | "closed" per connection
    msg,                  \* the message a connection's dispatcher is working on
    rcv,                  \* the connection and message the last step read, if any
    sent                  \* the envelopes the last step delivered, in order

baseVars == <<env, observe, phase, artifact, close_code, shutdown, retry, reset>>
stopFrame == <<env, observe, artifact, close_code, storage, retry, reset>>
retryFrame == <<env, observe, phase, artifact, close_code, storage, shutdown, reset>>
resetFrame == <<env, observe, phase, artifact, close_code, storage, shutdown, retry>>
confVars == <<baseVars, storage>>
sessVars == <<sessions, sessCtx, pool_eligible, event_stream_enabled, idle>>
ctxVars  == <<ctxState, nextCtx, nextSid, context_pool, pool_lock>>
ownVars  == <<session_owners, client_sessions>>
flowVars == <<pc, sid, ctx, ret, expired>>
vars == <<confVars, sessVars, ctxVars, ownVars, flowVars, transport, msg, rcv, sent>>

\* the session limit is read from the environment when the module is loaded
MAX_SESSIONS == env.MAX_SESSIONS

NoLock == 0 - 1
NoMsg  == [shape |-> "none", cmd |-> "", target |-> 0, opt |-> "", id |-> 0]
NoRcv  == [conn |-> 0, m |-> NoMsg]
NoFile == <<"-">>
NoPath == [abs |-> FALSE, segs |-> <<>>]
States == {"s1"}
NoStorage ==
    [ws     |-> [s \in Sids |-> s],
     files  |-> [w \in Sids |-> "none"],
     data   |-> [k \in Ctxs |-> "empty"],
     imported |-> [k \in Ctxs |-> FALSE],
     loaded |-> [c \in Conns |-> "none"],
     last   |-> [by |-> 0, state |-> "none"]]
NoShutdown == [todo |-> {}, pool |-> <<>>, browser |-> "open", provider |-> "running"]
NoRetry ==
    [policy |-> [attempts |-> 0, delay_seconds |-> 0, backoff_factor |-> 0,
                 max_delay_seconds |-> 0],
     on_retry |-> FALSE, at |-> "idle", attempt |-> 0, delay |-> 0, last_error |-> 0,
     log |-> <<>>, result |-> [kind |-> "none", of |-> 0]]
NoReset ==
    [where |-> "none", pages |-> <<>>, dirty |-> {}, site |-> {}, cookies |-> FALSE,
     at |-> "idle", caller |-> "", list |-> <<>>, i |-> 0, tried |-> {}, before |-> <<>>]
NoArtifact == [via |-> "", dir |-> <<>>, path |-> NoPath, status |-> "", file |-> NoFile]

\* ----------------------------------------------------------------- helpers
Last(s) == s[Len(s)]
Front(s) == SubSeq(s, 1, Len(s) - 1)

Env(kind, name, s, i) == [type |-> kind, name |-> name, sid |-> s, id |-> i]

\* websocket.send(payload) for each of envs: delivered when the transport is open,
\* raises otherwise
Deliver(c, envs) ==
    IF observe /\ transport[c] = "open" THEN [i \in 1..Len(envs) |-> [to |-> c, env |-> envs[i]]]
    ELSE <<>>

\* _emit_event: the envelope sent to the invoking websocket for `event` of session s,
\* given the registry `sess` and the sessions' event-stream flags `es`
EmitEvent(sess, es, ev, s) ==
    IF ~env.WS_EVENT_STREAM_ENABLED THEN <<>>
    ELSE IF s \in sess /\ ~es[s] THEN <<>>
    ELSE <<Env("event", ev, s, 0)>>

\* _register_session_owner
RegisterOwnerSkip(own, s, c) == own
RegisterOwner(own, s, c) ==
    IF s \in DOMAIN own THEN [own EXCEPT ![s] = @ \cup {c}]
    ELSE [x \in DOMAIN own \cup {s} |-> IF x = s THEN {c} ELSE own[x]]

\* _unregister_websocket, for each websocket of W
UnregisterSet(own, W) ==
    LET left == [x \in DOMAIN own |-> own[x] \ W]
        to_remove == {x \in DOMAIN own : own[x] \cap W # {} /\ left[x] = {}}
    IN [x \in DOMAIN own \ to_remove |-> left[x]]
UnregisterDropAll(own, c) == [x \in {} |-> {}]
UnregisterKeep(own, c) == own
Unregister(own, c) == UnregisterSet(own, {c})

\* BrowserSession.is_expired
IsExpiredAtTimeout(s) == idle[s] >= SESSION_TIMEOUT
IsExpired(s) == idle[s] > SESSION_TIMEOUT

\* _create_session, line 622
CapacityOffByOne == Cardinality(sessions) > MAX_SESSIONS
CapacityReached == Cardinality(sessions) >= MAX_SESSIONS

\* self._pool_enabled after start(): pooling is switched off when video recording is on
PoolEnabled == env.BROWSER_POOL_ENABLED /\ ~env.PLAYWRIGHT_VIDEO_DIR

\* the session a command addresses: args.session_id, else the connection's own session
Target(c, m) == IF m.target # 0 THEN m.target ELSE client_sessions[c]

\* a creation can be attempted: it is refused, or there is a session id left of n
Within(n) == CapacityReached \/ nextSid <= n

\* session ids a client can name: every id handed out so far, or none
Targets == 0..(nextSid - 1)

Response(m) == Env("response", m.cmd, 0, m.id)
ErrorEnv(m, text) == Env("error", text, 0, m.id)

\* lines 742-757: command_finished, then the response envelope
SucceedResponseFirst(c, m, sess, es) ==
    <<Response(m)>> \o EmitEvent(sess, es, "command_finished", Target(c, m))
Succeed(c, m, sess, es) ==
    EmitEvent(sess, es, "command_finished", Target(c, m)) \o <<Response(m)>>

\* lines 764-785: command_failed, then the error envelope
Fail(c, m, err) ==
    EmitEvent(sessions, event_stream_enabled, "command_failed", Target(c, m))
    \o <<ErrorEnv(m, err)>>

\* ------------------------------------------------------------------- Init
EnvChoices(limits, pooling) ==
    [MAX_SESSIONS : limits, BROWSER_POOL_ENABLED : pooling, PLAYWRIGHT_VIDEO_DIR : {FALSE},
     WS_EVENT_STREAM_ENABLED : {TRUE}, WS_CONSOLE_STREAM_ENABLED : {TRUE},
     WS_HAR_ENABLED : {FALSE}, AUTH_REQUIRED : {FALSE}]

InitWith(choices, obs) ==
    /\ env \in choices
    /\ observe = obs
    /\ phase = "constructed"
    /\ artifact = NoArtifact
    /\ close_code = [c \in Conns |-> 0]
    /\ storage = NoStorage
    /\ shutdown = NoShutdown
    /\ retry = NoRetry
    /\ reset = NoReset
    /\ sessions = {}
    /\ sessCtx = [s \in Sids |-> 0]
    /\ pool_eligible = [s \in Sids |-> FALSE]
    /\ event_stream_enabled = [s \in Sids |-> TRUE]
    /\ idle = [s \in Sids |-> 0]
    /\ ctxState = [k \in Ctxs |-> "none"]
    /\ nextCtx = 1
    /\ nextSid = 1
    /\ context_pool = <<>>
    /\ pool_lock = NoLock
    /\ session_owners = [x \in {} |-> {}]
    /\ client_sessions = [c \in Conns |-> 0]
    /\ pc = [p \in Procs |-> IF p = SWEEPER THEN "sleep" ELSE "idle"]
    /\ sid = [p \in Procs |-> 0]
    /\ ctx = [p \in Procs |-> 0]
    /\ ret = [p \in Procs |-> ""]
    /\ expired = {}
    /\ transport = [c \in Conns |-> "open"]
    /\ msg = [c \in Conns |-> NoMsg]
    /\ rcv = NoRcv
    /\ sent = <<>>

Init == InitWith(EnvChoices({1}, BOOLEAN), FALSE)

\* start(): pre-warm the pool, then serve
Start ==
    /\ phase = "constructed"
    /\ phase' = "serving"
    /\ LET prewarm == PoolEnabled /\ BROWSER_POOL_SIZE > 0
       IN /\ context_pool' = IF prewarm THEN [i \in 1..BROWSER_POOL_SIZE |-> i] ELSE <<>>
          /\ ctxState' = [k \in Ctxs |->
                            IF prewarm /\ k <= BROWSER_POOL_SIZE THEN "open" ELSE "none"]
          /\ nextCtx' = IF prewarm THEN BROWSER_POOL_SIZE + 1 ELSE 1
    /\ rcv' = NoRcv
    /\ sent' = <<>>
    /\ UNCHANGED <<env, observe, artifact, close_code, storage, shutdown, retry, reset, sessVars, nextSid, pool_lock, ownVars,
                   flowVars, transport, msg>>

\* a flow's locals when its operation has returned
Return(p, label) ==
    /\ pc' = [pc EXCEPT ![p] = label]
    /\ sid' = [sid EXCEPT ![p] = 0]
    /\ ctx' = [ctx EXCEPT ![p] = 0]
    /\ ret' = [ret EXCEPT ![p] = ""]

\* ------------------------------------------------- _close_session, lines 673-684
\* line 674: the session leaves the registry; the first await follows
ClosePopKeep(p, s, r) ==
    /\ UNCHANGED <<sessions, idle>>
    /\ sid' = [sid EXCEPT ![p] = s]
    /\ ctx' = [ctx EXCEPT ![p] = sessCtx[s]]
    /\ ret' = [ret EXCEPT ![p] = r]
    /\ pc' = [pc EXCEPT ![p] = IF pool_eligible[s] THEN "cl_reset" ELSE "cl_close"]
ClosePop(p, s, r) ==
    /\ sessions' = sessions \ {s}
    /\ idle' = [idle EXCEPT ![s] = 0]
    /\ sid' = [sid EXCEPT ![p] = s]
    /\ ctx' = [ctx EXCEPT ![p] = sessCtx[s]]
    /\ ret' = [ret EXCEPT ![p] = r]
    /\ pc' = [pc EXCEPT ![p] = IF pool_eligible[s] THEN "cl_reset" ELSE "cl_close"]

\* The caller of _close_session resumes (r names it): the dispatcher answers the
\* close_session command, the connection's finally block unregisters the websocket,
\* the sweep goes on to the next expired session.  `pre` are the envelopes the step
\* has issued so far, ex the sweep's remaining list.
AfterClose(p, r, m, pre, ex) ==
    CASE r = "command" ->
            /\ sent' = Deliver(p, pre \o Succeed(p, m, sessions, event_stream_enabled))
            /\ Return(p, "loop")
            /\ msg' = [msg EXCEPT ![p] = NoMsg]
            /\ expired' = ex
            /\ UNCHANGED <<sessions, idle, session_owners, transport>>
      [] r = "teardown" ->
            /\ session_owners' = Unregister(session_owners, p)
            /\ Return(p, "done")
            /\ msg' = [msg EXCEPT ![p] = NoMsg]
            /\ transport' = [transport EXCEPT ![p] = "closed"]
            /\ sent' = Deliver(p, pre)
            /\ expired' = ex
            /\ UNCHANGED <<sessions, idle>>
      [] r = "stop" ->
            /\ sent' = <<>>
            /\ Return(p, "st_sessions")
            /\ expired' = ex
            /\ UNCHANGED <<sessions, idle, session_owners, transport, msg>>
      [] r = "sweep" ->
            /\ sent' = <<>>
            /\ UNCHANGED <<session_owners, transport, msg>>
            /\ IF ex \cap sessions = {}
               THEN /\ Return(p, "sleep")
                    /\ expired' = {}
                    /\ UNCHANGED <<sessions, idle>>
               ELSE \E s \in ex \cap sessions :
                    /\ ClosePop(p, s, r)
                    /\ expired' = ex \ {s}

CloseBegin(p, s, r, m, pre, ex) ==
    IF s \in sessions
    THEN /\ ClosePop(p, s, r)
         /\ sent' = Deliver(p, pre)
         /\ msg' = [msg EXCEPT ![p] = m]
         /\ expired' = ex
         /\ UNCHANGED <<session_owners, transport>>
    ELSE AfterClose(p, r, m, pre, ex)

closeFrame == <<confVars, sessCtx, pool_eligible, event_stream_enabled, nextCtx, nextSid,
                client_sessions>>

\* _release_context under the pool lock, lines 465-470: close at capacity, else append
ReleaseAlwaysAppend(p, k) ==
    /\ context_pool' = Append(context_pool, k)
    /\ AfterClose(p, ret[p], msg[p], <<>>, expired)
    /\ UNCHANGED <<pool_lock, ctxState>>
ReleaseLocked(p, k) ==
    IF Len(context_pool) >= BROWSER_POOL_SIZE
    THEN /\ pool_lock' = p
         /\ pc' = [pc EXCEPT ![p] = "cl_closelocked"]
         /\ ctx' = [ctx EXCEPT ![p] = k]
         /\ sent' = <<>>
         /\ UNCHANGED <<context_pool, ctxState, sid, ret, expired, sessions, idle,
                        session_owners, transport, msg>>
    ELSE /\ context_pool' = Append(context_pool, k)
         /\ AfterClose(p, ret[p], msg[p], <<>>, expired)
         /\ UNCHANGED <<pool_lock, ctxState>>

\* _reset_context returned; _release_context(session.context) starts (line 680 reads
\* session.context again)
CloseResetDone(p) ==
    /\ pc[p] = "cl_reset"
    /\ IF pool_lock = NoLock
       THEN ReleaseLocked(p, sessCtx[sid[p]])
       ELSE /\ pc' = [pc EXCEPT ![p] = "cl_lock"]
            /\ ctx' = [ctx EXCEPT ![p] = sessCtx[sid[p]]]
            /\ sent' = <<>>
            /\ UNCHANGED <<context_pool, ctxState, pool_lock, sid, ret, expired, sessions,
                           idle, session_owners, transport, msg>>
    /\ rcv' = NoRcv
    /\ UNCHANGED closeFrame

\* the pool lock was handed to a waiting release
CloseLockAcquired(p) ==
    /\ pc[p] = "cl_lock"
    /\ pool_lock = NoLock
    /\ ReleaseLocked(p, ctx[p])
    /\ rcv' = NoRcv
    /\ UNCHANGED closeFrame

\* context.close() returned inside the lock (pool at capacity)
CloseLockedDone(p) ==
    /\ pc[p] = "cl_closelocked"
    /\ ctxState' = [ctxState EXCEPT ![ctx[p]] = "closed"]
    /\ pool_lock' = NoLock
    /\ AfterClose(p, ret[p], msg[p], <<>>, expired)
    /\ rcv' = NoRcv
    /\ UNCHANGED <<closeFrame, context_pool>>

\* context.close() raised inside the lock (line 467): the lock is released, line 683
\* logs the error
CloseLockedRaises(p) ==
    /\ pc[p] = "cl_closelocked"
    /\ pool_lock' = NoLock
    /\ AfterClose(p, ret[p], msg[p], <<>>, expired)
    /\ rcv' = NoRcv
    /\ UNCHANGED <<closeFrame, context_pool, ctxState>>

\* session.context.close() returned (session not pool-eligible, line 682)
CloseDone(p) ==
    /\ pc[p] = "cl_close"
    /\ ctxState' = [ctxState EXCEPT ![ctx[p]] = "closed"]
    /\ AfterClose(p, ret[p], msg[p], <<>>, expired)
    /\ rcv' = NoRcv
    /\ UNCHANGED <<closeFrame, context_pool, pool_lock>>

\* session.context.close() raised (line 682): line 683 logs the error
CloseDoneRaises(p) ==
    /\ pc[p] = "cl_close"
    /\ AfterClose(p, ret[p], msg[p], <<>>, expired)
    /\ rcv' = NoRcv
    /\ UNCHANGED <<closeFrame, context_pool, pool_lock, ctxState>>

\* ------------------------------------------------ _create_session, lines 613-671
\* _create_session raised: the connection handler logs and runs its finally block,
\* the dispatcher converts the exception into an error envelope
AfterCreateFail(c, r, m, err, pre) ==
    /\ msg' = [msg EXCEPT ![c] = NoMsg]
    /\ UNCHANGED client_sessions
    /\ IF r = "connect"
       THEN /\ session_owners' = Unregister(session_owners, c)
            /\ Return(c, "done")
            /\ transport' = [transport EXCEPT ![c] = "closed"]
            /\ sent' = Deliver(c, pre)
       ELSE /\ sent' = Deliver(c, pre \o Fail(c, m, err))
            /\ Return(c, "loop")
            /\ UNCHANGED <<session_owners, transport>>

\* _borrow_context with the pool lock free: pop a pooled context, else create one
BorrowWithoutPop(c) ==
    IF context_pool # <<>>
    THEN /\ ctx' = [ctx EXCEPT ![c] = Last(context_pool)]
         /\ pc' = [pc EXCEPT ![c] = "cs_newpage"]
         /\ UNCHANGED context_pool
    ELSE /\ pc' = [pc EXCEPT ![c] = "cs_newctx"]
         /\ UNCHANGED <<context_pool, ctx>>
BorrowLocked(c) ==
    IF context_pool # <<>>
    THEN /\ context_pool' = Front(context_pool)
         /\ ctx' = [ctx EXCEPT ![c] = Last(context_pool)]
         /\ pc' = [pc EXCEPT ![c] = "cs_newpage"]
    ELSE /\ pc' = [pc EXCEPT ![c] = "cs_newctx"]
         /\ UNCHANGED <<context_pool, ctx>>

\* lines 622-651, up to the first await that suspends
CreateBegin(c, r, m, har, wsok, pre) ==
    IF CapacityReached
    THEN /\ AfterCreateFail(c, r, m, "max_sessions", pre)
         /\ UNCHANGED <<nextSid, context_pool, pool_eligible>>
    ELSE IF ~wsok
    THEN /\ AfterCreateFail(c, r, m, "invalid_workspace", pre)
         /\ UNCHANGED <<nextSid, context_pool, pool_eligible>>
    ELSE /\ nextSid' = nextSid + 1
         /\ sid' = [sid EXCEPT ![c] = nextSid]
         /\ ret' = [ret EXCEPT ![c] = r]
         /\ msg' = [msg EXCEPT ![c] = m]
         \* record_har decides pool_eligible (line 665); kept with the id until the
         \* session object is built
         /\ pool_eligible' = [pool_eligible EXCEPT ![nextSid] = PoolEnabled /\ ~har]
         /\ sent' = Deliver(c, pre)
         /\ UNCHANGED <<session_owners, client_sessions, transport>>
         /\ IF ~PoolEnabled \/ har
            THEN /\ pc' = [pc EXCEPT ![c] = "cs_newctx"]
                 /\ UNCHANGED <<context_pool, ctx>>
            ELSE IF pool_lock = NoLock
            THEN BorrowLocked(c)
            ELSE /\ pc' = [pc EXCEPT ![c] = "cs_lock"]
                 /\ UNCHANGED <<context_pool, ctx>>

\* the pool lock was handed to a waiting borrow
CreateLockAcquired(c) ==
    /\ pc[c] = "cs_lock"
    /\ pool_lock = NoLock
    /\ BorrowLocked(c)
    /\ rcv' = NoRcv
    /\ sent' = <<>>
    /\ UNCHANGED <<confVars, sessVars, ctxState, nextCtx, nextSid, pool_lock, ownVars,
                   sid, ret, expired, transport, msg>>

\* browser.new_context() returned or raised (_create_context, line 523)
CreateNewContext(c) ==
    /\ pc[c] = "cs_newctx"
    /\ \E ok \in BOOLEAN :
         IF ok
         THEN /\ nextCtx <= MaxCtx
              /\ ctxState' = [ctxState EXCEPT ![nextCtx] = "open"]
              /\ nextCtx' = nextCtx + 1
              /\ ctx' = [ctx EXCEPT ![c] = nextCtx]
              /\ pc' = [pc EXCEPT ![c] = "cs_newpage"]
              /\ sent' = <<>>
              /\ UNCHANGED <<sid, ret, ownVars, transport, msg>>
         ELSE /\ AfterCreateFail(c, ret[c], msg[c], "provider", <<>>)
              /\ UNCHANGED <<ctxState, nextCtx>>
    /\ rcv' = NoRcv
    /\ UNCHANGED <<confVars, sessVars, nextSid, context_pool, pool_lock, expired>>

\* line 668, self.sessions[session_id] = session
Insert(s) == sessions' = sessions \cup {s}

\* _reset_context returned (it swallows every error) and context.new_page() returned or
\* raised: two provider awaits in a row, no server state is touched between them;
\* then lines 655-671 and the caller's next lines
CreateNewPage(c) ==
    /\ pc[c] = "cs_newpage"
    /\ \E ok \in BOOLEAN :
         IF ok
         THEN /\ ctxState[ctx[c]] = "open"
              /\ Insert(sid[c])
              /\ sessCtx' = [sessCtx EXCEPT ![sid[c]] = ctx[c]]
              /\ event_stream_enabled' =
                    [event_stream_enabled EXCEPT ![sid[c]] = env.WS_EVENT_STREAM_ENABLED]
              /\ idle' = [idle EXCEPT ![sid[c]] = 0]
              /\ session_owners' = RegisterOwner(session_owners, sid[c], c)
              /\ Return(c, "loop")
              /\ msg' = [msg EXCEPT ![c] = NoMsg]
              /\ UNCHANGED transport
              /\ IF ret[c] = "connect"
                 THEN /\ client_sessions' = [client_sessions EXCEPT ![c] = sid[c]]
                      /\ sent' = Deliver(c, <<Env("connected", "", sid[c], 0)>>)
                 ELSE /\ sent' = Deliver(c, Succeed(c, msg[c], sessions \cup {sid[c]},
                                                    event_stream_enabled'))
                      /\ UNCHANGED client_sessions
         ELSE /\ AfterCreateFail(c, ret[c], msg[c], "provider", <<>>)
              /\ UNCHANGED <<sessions, sessCtx, event_stream_enabled, idle>>
    /\ rcv' = NoRcv
    /\ UNCHANGED <<confVars, pool_eligible, ctxVars, expired>>

\* ------------------------------------------- _handle_connection, lines 554-611
\* a client connects: the handler starts and calls _create_session
Accept(c) ==
    /\ phase = "serving"
    /\ pc[c] = "idle"
    /\ ~env.AUTH_REQUIRED
    /\ Within(MaxSid)
    /\ CreateBegin(c, "connect", NoMsg, env.WS_HAR_ENABLED, TRUE, <<>>)
    /\ rcv' = NoRcv
    /\ UNCHANGED <<confVars, sessions, sessCtx, event_stream_enabled, idle,
                   ctxState, nextCtx, pool_lock, expired>>

\* a message as the server reads it
Mk(shape, cmd, target, opt, i) ==
    [shape |-> shape, cmd |-> cmd, target |-> target, opt |-> opt, id |-> i]

\* lines 558-584: the authentication handshake
\* the handler starts and awaits the first message (line 561)
Connect(c) ==
    /\ phase = "serving"
    /\ pc[c] = "idle"
    /\ env.AUTH_REQUIRED
    /\ pc' = [pc EXCEPT ![c] = "auth"]
    /\ rcv' = NoRcv
    /\ sent' = <<>>
    /\ UNCHANGED <<confVars, sessVars, ctxVars, ownVars, sid, ctx, ret, expired,
                   transport, msg>>

\* line 564: the first message is {"type": "auth", "token": <the server's token>}
TokenMatchesTypeOnly(m) == m.shape \in {"auth_ok", "auth_bad_token"}
TokenMatches(m) == m.shape = "auth_ok"

\* websocket.close(1008, ...) and return: the handler ends before its try block
AuthReject(c, envs) ==
    /\ sent' = Deliver(c, envs)
    /\ transport' = [transport EXCEPT ![c] = "closed"]
    /\ close_code' = [close_code EXCEPT ![c] = IF transport[c] = "open" THEN 1008 ELSE @]
    /\ pc' = [pc EXCEPT ![c] = "done"]
    /\ UNCHANGED <<nextSid, context_pool, pool_eligible, ownVars, sid, ctx, ret, msg>>

\* the first message arrived: not JSON or no object (lines 581-584), wrong type or
\* token (lines 564-570), or the matching token (lines 572-576, then line 587)
AuthRecv(c) ==
    /\ pc[c] = "auth"
    /\ transport[c] = "open"
    /\ \E shape \in {"auth_ok", "auth_bad_token", "auth_bad_type", "bad_json", "non_object"} :
         LET m == Mk(shape, "", 0, "", 0)
         IN /\ rcv' = IF observe THEN [conn |-> c, m |-> m] ELSE NoRcv
            /\ IF shape \in {"bad_json", "non_object"}
               THEN AuthReject(c, <<>>)
               ELSE IF ~TokenMatches(m)
               THEN AuthReject(c, <<Env("error", "auth_failed", 0, 0)>>)
               ELSE /\ CreateBegin(c, "connect", NoMsg, env.WS_HAR_ENABLED, TRUE,
                                   <<Env("auth_success", "", 0, 0)>>)
                    /\ UNCHANGED close_code
    /\ UNCHANGED <<env, observe, phase, artifact, storage, shutdown, retry, reset, sessions, sessCtx, event_stream_enabled,
                   idle, ctxState, nextCtx, pool_lock, expired>>

\* no first message within 10 seconds (lines 578-580)
AuthTimeout(c) ==
    /\ pc[c] = "auth"
    /\ transport[c] = "open"
    /\ AuthReject(c, <<>>)
    /\ rcv' = NoRcv
    /\ UNCHANGED <<env, observe, phase, artifact, storage, shutdown, retry, reset, sessions, sessCtx, event_stream_enabled,
                   idle, ctxState, nextCtx, pool_lock, expired>>

\* the client closed before its first message: recv raises (lines 581-584)
AuthClosed(c) ==
    /\ pc[c] = "auth"
    /\ transport[c] = "closed"
    /\ AuthReject(c, <<>>)
    /\ rcv' = NoRcv
    /\ UNCHANGED <<env, observe, phase, artifact, storage, shutdown, retry, reset, sessions, sessCtx, event_stream_enabled,
                   idle, ctxState, nextCtx, pool_lock, expired>>

\* the client closes its end: before its first message, between two requests or
\* during a page command
ClientClose(c) ==
    /\ pc[c] \in {"auth", "loop", "h_page"}
    /\ transport[c] = "open"
    /\ transport' = [transport EXCEPT ![c] = "closed"]
    /\ rcv' = NoRcv
    /\ sent' = <<>>
    /\ UNCHANGED <<confVars, sessVars, ctxVars, ownVars, flowVars, msg>>

\* the finally block without the close of the implicit session
TeardownKeepSession(c, m) ==
    /\ client_sessions' = [client_sessions EXCEPT ![c] = 0]
    /\ AfterClose(c, "teardown", m, <<>>, expired)

\* the finally block, lines 606-611
Teardown(c, m) ==
    /\ client_sessions' = [client_sessions EXCEPT ![c] = 0]
    /\ CloseBegin(c, client_sessions[c], "teardown", m, <<>>, expired)

\* `async for message in websocket` ends: the transport is closed
LoopEnd(c) ==
    /\ pc[c] = "loop"
    /\ transport[c] = "closed"
    /\ Teardown(c, NoMsg)
    /\ rcv' = NoRcv
    /\ UNCHANGED <<confVars, sessCtx, pool_eligible, event_stream_enabled,
                   ctxVars>>

\* --------------------------------------------- _handle_message, lines 719-785
\* the read loop hands the next message to _handle_message
RecvPre(c, m) ==
    /\ pc[c] = "loop"
    /\ transport[c] = "open"
    /\ rcv' = IF observe THEN [conn |-> c, m |-> m] ELSE NoRcv

\* line 737: command_started is emitted to the invoking websocket
Started(c, m) ==
    EmitEvent(sessions, event_stream_enabled, "command_started", Target(c, m))

oneStepFrame == <<confVars, sessions, sessCtx, pool_eligible, ctxVars, ownVars,
                  flowVars, transport, msg>>

\* json.loads raises JSONDecodeError (lines 759-763)
RecvBadJson(c) ==
    /\ RecvPre(c, Mk("bad_json", "", 0, "", 0))
    /\ sent' = Deliver(c, <<Env("error", "invalid_json", 0, 0)>>)
    /\ UNCHANGED <<oneStepFrame, idle, event_stream_enabled>>

\* valid JSON that is no object (a list, a number, null): data.get raises AttributeError
\* at line 722, and again at line 768 inside the except block, where only NameError is
\* caught: the exception leaves _handle_message and ends the read loop
RecvNonObject(c) ==
    /\ RecvPre(c, Mk("non_object", "", 0, "", 0))
    /\ Teardown(c, NoMsg)
    /\ UNCHANGED <<confVars, sessCtx, pool_eligible, event_stream_enabled, ctxVars>>

\* args is no object: args.get raises at line 726, before the handler lookup
RecvBadArgs(c) ==
    \E cmd \in {"navigate", "bogus"}, i \in Ids :
       LET m == Mk("bad_args", cmd, 0, "", i)
       IN /\ RecvPre(c, m)
          /\ sent' = Deliver(c, Fail(c, m, "bad_args"))
          /\ UNCHANGED <<oneStepFrame, idle, event_stream_enabled>>

\* no handler for the command (lines 728-735)
RecvUnknownAsHandled(c) ==
    \E t \in Targets, i \in Ids :
       LET m == Mk("ok", "bogus", t, "", i)
       IN /\ RecvPre(c, m)
          /\ sent' = Deliver(c, Started(c, m) \o Fail(c, m, "unknown_command"))
          /\ UNCHANGED <<oneStepFrame, idle, event_stream_enabled>>
RecvUnknown(c) ==
    \E t \in Targets, i \in Ids :
       LET m == Mk("ok", "bogus", t, "", i)
       IN /\ RecvPre(c, m)
          /\ sent' = Deliver(c, <<ErrorEnv(m, "unknown_command")>>)
          /\ UNCHANGED <<oneStepFrame, idle, event_stream_enabled>>

\* _handle_health (and _handle_list_sessions): no session lookup, no await
RecvHealth(c) ==
    \E t \in Targets, i \in Ids :
       LET m == Mk("ok", "health", t, "", i)
       IN /\ RecvPre(c, m)
          /\ sent' = Deliver(c, Started(c, m)
                                \o Succeed(c, m, sessions, event_stream_enabled))
          /\ UNCHANGED <<oneStepFrame, idle, event_stream_enabled>>

\* _handle_event_stream, lines 827-831
RecvEventStream(c) ==
    \E t \in Targets, on \in BOOLEAN, i \in Ids :
       LET m == Mk("ok", "event_stream", t, IF on THEN "on" ELSE "off", i)
           s == Target(c, m)
       IN /\ RecvPre(c, m)
          /\ IF s \in sessions
             THEN /\ idle' = [idle EXCEPT ![s] = 0]
                  /\ event_stream_enabled' = [event_stream_enabled EXCEPT ![s] = on]
                  /\ sent' = Deliver(c, Started(c, m)
                                        \o Succeed(c, m, sessions, event_stream_enabled'))
             ELSE /\ sent' = Deliver(c, Started(c, m) \o Fail(c, m, "session_not_found"))
                  /\ UNCHANGED <<idle, event_stream_enabled>>
          /\ UNCHANGED oneStepFrame

\* _handle_create_session, lines 787-812
RecvCreate(c) ==
    \E t \in Targets, opt \in {"plain", "har", "bad_workspace"}, i \in Ids :
       LET m == Mk("ok", "create_session", t, opt, i)
       IN /\ Within(MaxSid)
          /\ RecvPre(c, m)
          /\ CreateBegin(c, "command", m,
                         IF opt = "har" THEN TRUE ELSE env.WS_HAR_ENABLED,
                         opt # "bad_workspace", Started(c, m))
          /\ UNCHANGED <<confVars, sessions, sessCtx, event_stream_enabled, idle,
                         ctxState, nextCtx, pool_lock, expired>>

\* _handle_close_session, lines 1254-1256
RecvClose(c) ==
    \E t \in Targets, i \in Ids :
       LET m == Mk("ok", "close_session", t, "", i)
       IN /\ RecvPre(c, m)
          /\ CloseBegin(c, Target(c, m), "command", m, Started(c, m), expired)
          /\ UNCHANGED <<confVars, sessCtx, pool_eligible, event_stream_enabled,
                         ctxVars, client_sessions>>


handlerFrame == <<confVars, sessions, sessCtx, pool_eligible, event_stream_enabled,
                  ctxVars, ownVars, ret, expired, transport>>

\* _get_session and the handler's first provider call, the argument check left out
LookupUnchecked(c, m, argok, argerr, first) ==
    LET s == Target(c, m)
    IN IF s \notin sessions
       THEN /\ sent' = Deliver(c, Started(c, m) \o Fail(c, m, "session_not_found"))
            /\ UNCHANGED <<idle, pc, sid, ctx, msg>>
       ELSE /\ idle' = [idle EXCEPT ![s] = 0]
            /\ sent' = Deliver(c, Started(c, m))
            /\ pc' = [pc EXCEPT ![c] = first]
            /\ sid' = [sid EXCEPT ![c] = s]
            /\ ctx' = [ctx EXCEPT ![c] = sessCtx[s]]
            /\ msg' = [msg EXCEPT ![c] = m]

\* _get_session, the argument check, and the handler's first provider call: the
\* lookup fails, the check fails, or the flow suspends at `first`
Lookup(c, m, argok, argerr, first) ==
    LET s == Target(c, m)
    IN IF s \notin sessions
       THEN /\ sent' = Deliver(c, Started(c, m) \o Fail(c, m, "session_not_found"))
            /\ UNCHANGED <<idle, pc, sid, ctx, msg>>
       ELSE /\ idle' = [idle EXCEPT ![s] = 0]
            /\ IF ~argok
               THEN /\ sent' = Deliver(c, Started(c, m) \o Fail(c, m, argerr))
                    /\ UNCHANGED <<pc, sid, ctx, msg>>
               ELSE /\ sent' = Deliver(c, Started(c, m))
                    /\ pc' = [pc EXCEPT ![c] = first]
                    /\ sid' = [sid EXCEPT ![c] = s]
                    /\ ctx' = [ctx EXCEPT ![c] = sessCtx[s]]
                    /\ msg' = [msg EXCEPT ![c] = m]

\* a page command (_handle_navigate, lines 893-907, stands for all of them)
RecvPage(c) ==
    \E t \in Targets, opt \in {"url", "no_url"}, i \in Ids :
       LET m == Mk("ok", "navigate", t, opt, i)
       IN /\ RecvPre(c, m)
          /\ Lookup(c, m, opt = "url", "url_required", "h_page")
          /\ UNCHANGED handlerFrame

\* the dispatcher resumes after the handler returned (ok) or raised
Answer(c, ok, err) ==
    /\ sent' = Deliver(c, IF ok THEN Succeed(c, msg[c], sessions, event_stream_enabled)
                          ELSE Fail(c, msg[c], err))
    /\ Return(c, "loop")
    /\ msg' = [msg EXCEPT ![c] = NoMsg]

\* the provider call of a page command returned or raised
PageDone(c) ==
    /\ pc[c] = "h_page"
    /\ \E ok \in BOOLEAN :
         /\ ok => ctxState[ctx[c]] = "open"
         /\ Answer(c, ok, "provider")
    /\ rcv' = NoRcv
    /\ UNCHANGED <<confVars, sessVars, ctxVars, ownVars, expired, transport>>

\* _handle_import_storage_state, lines 1380-1399: up to `await session.context.close()`
RecvImport(c) ==
    \E t \in Targets, opt \in {"state", "no_state", "path"}, i \in Ids :
       LET m == Mk("ok", "import_storage_state", t, opt, i)
           s == Target(c, m)
           \* lines 1385-1394: 'state.json' of the session's artifact directory
           file  == IF s \in sessions THEN storage.files[storage.ws[s]] ELSE "none"
           state == IF opt = "path" THEN file ELSE IF opt = "state" THEN "inline" ELSE "none"
       IN /\ RecvPre(c, m)
          /\ Lookup(c, m, state # "none",
                    IF opt = "path" THEN "state_file_not_found" ELSE "state_required",
                    "imp_close")
          /\ storage' = IF s \in sessions /\ state # "none"
                        THEN [storage EXCEPT !.loaded[c] = state] ELSE storage
          /\ UNCHANGED <<baseVars, sessions, sessCtx, pool_eligible, event_stream_enabled,
                         ctxVars, ownVars, ret, expired, transport>>

\* line 1399 returned: the old context is closed; _create_context is awaited (line 1417)
ImportCloseDone(c) ==
    /\ pc[c] = "imp_close"
    /\ ctxState' = [ctxState EXCEPT ![ctx[c]] = "closed"]
    /\ pc' = [pc EXCEPT ![c] = "imp_newctx"]
    /\ rcv' = NoRcv
    /\ sent' = <<>>
    /\ UNCHANGED <<confVars, sessVars, nextCtx, nextSid, context_pool, pool_lock, ownVars,
                   sid, ctx, ret, expired, transport, msg>>

\* _create_context, lines 505-507: the context is built from the state handed in
ContextDataDropped(state) == "empty"
ContextData(state) == state

\* browser.new_context(storage_state=...) returned or raised
ImportNewContext(c) ==
    /\ pc[c] = "imp_newctx"
    /\ \E ok \in BOOLEAN :
         IF ok
         THEN /\ nextCtx <= MaxCtx
              /\ ctxState' = [ctxState EXCEPT ![nextCtx] = "open"]
              /\ storage' = [storage EXCEPT !.data[nextCtx] = ContextData(storage.loaded[c]),
                                             !.imported[nextCtx] = TRUE]
              /\ nextCtx' = nextCtx + 1
              /\ ctx' = [ctx EXCEPT ![c] = nextCtx]
              /\ pc' = [pc EXCEPT ![c] = "imp_newpage"]
              /\ sent' = <<>>
              /\ UNCHANGED <<sid, ret, msg>>
         ELSE /\ Answer(c, FALSE, "provider")
              /\ storage' = [storage EXCEPT !.loaded[c] = "none"]
              /\ UNCHANGED <<ctxState, nextCtx>>
    /\ rcv' = NoRcv
    /\ UNCHANGED <<baseVars, sessVars, nextSid, context_pool, pool_lock, ownVars,
                   expired, transport>>

\* context.new_page() returned or raised; lines 1424-1430 install the new pair
ImportNewPage(c) ==
    /\ pc[c] = "imp_newpage"
    /\ \E ok \in BOOLEAN :
         /\ sessCtx' = IF ok THEN [sessCtx EXCEPT ![sid[c]] = ctx[c]] ELSE sessCtx
         /\ Answer(c, ok, "provider")
    /\ storage' = [storage EXCEPT !.loaded[c] = "none"]
    /\ rcv' = NoRcv
    /\ UNCHANGED <<baseVars, sessions, pool_eligible, event_stream_enabled, idle, ctxVars,
                   ownVars, expired, transport>>

\* ------------------- storage state: _handle_export_storage_state, lines 1363-1378
\* create_session with a workspace_id the client chose (lines 788 and 629): the new
\* session shares the directories of that workspace
RecvCreateIn(c) ==
    \E t \in Targets, w \in 1..(nextSid - 1), i \in Ids :
       LET m == Mk("ok", "create_session", t, "workspace", i)
       IN /\ Within(MaxSid)
          /\ RecvPre(c, m)
          /\ CreateBegin(c, "command", m, env.WS_HAR_ENABLED, TRUE, Started(c, m))
          /\ storage' = IF CapacityReached THEN storage
                        ELSE [storage EXCEPT !.ws[nextSid] = storage.ws[w]]
          /\ UNCHANGED <<baseVars, sessions, sessCtx, event_stream_enabled, idle,
                         ctxState, nextCtx, pool_lock, expired>>

\* the page of session s stores cookies
Browse(s) ==
    /\ s \in sessions
    /\ ctxState[sessCtx[s]] = "open"
    /\ storage.data[sessCtx[s]] = "empty"
    /\ \E x \in States : storage' = [storage EXCEPT !.data[sessCtx[s]] = x]
    /\ rcv' = NoRcv
    /\ sent' = <<>>
    /\ UNCHANGED <<baseVars, sessVars, ctxVars, ownVars, flowVars, transport, msg>>

\* export_storage_state: to the file 'state.json' of the session's artifact
\* directory (lines 1367-1375), or into the response (lines 1377-1378)
RecvExport(c) ==
    \E t \in Targets, opt \in {"path", "inline"}, i \in Ids :
       LET m == Mk("ok", "export_storage_state", t, opt, i)
       IN /\ RecvPre(c, m)
          /\ Lookup(c, m, TRUE, "", "h_export")
          /\ UNCHANGED handlerFrame

\* context.storage_state(...) returned or raised
ExportDone(c) ==
    /\ pc[c] = "h_export"
    /\ \E ok \in BOOLEAN :
         /\ ok => ctxState[ctx[c]] = "open"
         /\ Answer(c, ok, "provider")
         /\ storage' =
               IF ok /\ msg[c].opt = "path"
               THEN [storage EXCEPT !.files[storage.ws[sid[c]]] = storage.data[ctx[c]],
                                    !.last = [by |-> sid[c], state |-> storage.data[ctx[c]]]]
               ELSE storage
    /\ rcv' = NoRcv
    /\ UNCHANGED <<baseVars, sessVars, ctxVars, ownVars, expired, transport>>

\* ------------------------------------- _cleanup_expired_sessions, lines 538-552
\* asyncio.sleep returned: the list of expired sessions is computed and the first
\* of them is closed
SweepScanFirstOnly ==
    /\ phase = "serving"
    /\ pc[SWEEPER] = "sleep"
    /\ {s \in sessions : IsExpired(s)} # {}
    /\ AfterClose(SWEEPER, "sweep", NoMsg, <<>>,
                  {CHOOSE s \in sessions : IsExpired(s)})
    /\ rcv' = NoRcv
    /\ UNCHANGED <<closeFrame, ctxState, context_pool, pool_lock>>
SweepScan ==
    /\ phase = "serving"
    /\ pc[SWEEPER] = "sleep"
    /\ {s \in sessions : IsExpired(s)} # {}
    /\ AfterClose(SWEEPER, "sweep", NoMsg, <<>>, {s \in sessions : IsExpired(s)})
    /\ rcv' = NoRcv
    /\ UNCHANGED <<closeFrame, ctxState, context_pool, pool_lock>>

\* time passes: every session in the registry grows one unit more idle
Tick ==
    /\ \E s \in sessions : idle[s] <= SESSION_TIMEOUT
    /\ idle' = [s \in Sids |->
                  IF s \in sessions /\ idle[s] <= SESSION_TIMEOUT THEN idle[s] + 1
                  ELSE idle[s]]
    /\ rcv' = NoRcv
    /\ sent' = <<>>
    /\ UNCHANGED <<confVars, sessions, sessCtx, pool_eligible, event_stream_enabled,
                   ctxVars, ownVars, flowVars, transport, msg>>

\* ------------------------------------------------------------ stop(), lines 223-251
\* main(), lines 1440-1447: start() has ended - it raised before serving, or the serve
\* block was left, which ends every connection handler first - and stop() runs.  The
\* cleanup task, if there is one, is cancelled and awaited (lines 227-232).
StopBegin ==
    /\ phase \in {"constructed", "serving"}
    /\ pc[MAIN] = "idle"
    /\ \A c \in Conns : pc[c] \in {"idle", "done"}
    /\ phase' = "stopping"
    /\ pc' = [pc EXCEPT ![MAIN] = "st_await",
                        ![SWEEPER] = IF phase = "constructed" THEN "done" ELSE @]
    /\ rcv' = NoRcv
    /\ sent' = <<>>
    /\ UNCHANGED <<stopFrame, shutdown, sessVars, ctxVars, ownVars, sid, ctx, ret, expired,
                   transport, msg>>

\* the await of the cancelled cleanup task raises CancelledError, which no handler
\* below line 548 catches: the task ends where it is.  A context.close() that was
\* under way may or may not have closed the context; a pool lock it held is released.
SweepCancelled ==
    /\ phase = "stopping"
    /\ pc[MAIN] = "st_await"
    /\ pc[SWEEPER] # "done"
    /\ \E closed \in BOOLEAN :
         ctxState' = IF closed /\ pc[SWEEPER] \in {"cl_close", "cl_closelocked"}
                     THEN [ctxState EXCEPT ![ctx[SWEEPER]] = "closed"] ELSE ctxState
    /\ pool_lock' = IF pool_lock = SWEEPER THEN NoLock ELSE pool_lock
    /\ Return(SWEEPER, "done")
    /\ expired' = {}
    /\ rcv' = NoRcv
    /\ sent' = <<>>
    /\ UNCHANGED <<confVars, sessVars, nextCtx, nextSid, context_pool, ownVars,
                   transport, msg>>

\* `await self._cleanup_task` returns when the task has finished
TaskFinishedNoWait == TRUE
TaskFinished == pc[SWEEPER] = "done"

\* line 234: list(self.sessions.keys())
StopAwaited ==
    /\ pc[MAIN] = "st_await"
    /\ TaskFinished
    /\ shutdown' = [shutdown EXCEPT !.todo = sessions]
    /\ pc' = [pc EXCEPT ![MAIN] = "st_sessions"]
    /\ rcv' = NoRcv
    /\ sent' = <<>>
    /\ UNCHANGED <<stopFrame, phase, sessVars, ctxVars, ownVars, sid, ctx, ret, expired,
                   transport, msg>>

\* line 235: _close_session for the next session id of the list
StopCloseNext ==
    /\ pc[MAIN] = "st_sessions"
    /\ \E s \in shutdown.todo :
         /\ shutdown' = [shutdown EXCEPT !.todo = @ \ {s}]
         /\ CloseBegin(MAIN, s, "stop", NoMsg, <<>>, expired)
    /\ rcv' = NoRcv
    /\ UNCHANGED <<stopFrame, phase, sessCtx, pool_eligible, event_stream_enabled,
                   ctxState, nextCtx, nextSid, context_pool, pool_lock, client_sessions>>

\* lines 237-242: list(self._context_pool), close each, then clear the pool
StopPoolBegin ==
    /\ pc[MAIN] = "st_sessions"
    /\ shutdown.todo = {}
    /\ shutdown' = [shutdown EXCEPT !.pool = context_pool]
    /\ context_pool' = context_pool
    /\ pc' = [pc EXCEPT ![MAIN] = IF context_pool = <<>> THEN "st_browser" ELSE "st_pool"]
    /\ rcv' = NoRcv
    /\ sent' = <<>>
    /\ UNCHANGED <<stopFrame, phase, sessVars, ctxState, nextCtx, nextSid, pool_lock,
                   ownVars, sid, ctx, ret, expired, transport, msg>>

\* context.close() of a pooled context returned or raised (lines 238-241)
StopPoolClosed ==
    /\ pc[MAIN] = "st_pool"
    /\ \E ok \in BOOLEAN :
         ctxState' = IF ok THEN [ctxState EXCEPT ![Head(shutdown.pool)] = "closed"]
                     ELSE ctxState
    /\ shutdown' = [shutdown EXCEPT !.pool = Tail(@)]
    /\ IF Tail(shutdown.pool) = <<>>
       THEN /\ context_pool' = <<>>
            /\ pc' = [pc EXCEPT ![MAIN] = "st_browser"]
       ELSE UNCHANGED <<context_pool, pc>>
    /\ rcv' = NoRcv
    /\ sent' = <<>>
    /\ UNCHANGED <<stopFrame, phase, sessVars, nextCtx, nextSid, pool_lock, ownVars,
                   sid, ctx, ret, expired, transport, msg>>

\* lines 244-245: browser.close() returned; the browser's contexts are gone with it
StopBrowserClosed ==
    /\ pc[MAIN] = "st_browser"
    /\ shutdown' = [shutdown EXCEPT !.browser = "closed"]
    /\ ctxState' = [k \in Ctxs |-> IF ctxState[k] = "open" THEN "closed" ELSE ctxState[k]]
    /\ pc' = [pc EXCEPT ![MAIN] = "st_provider"]
    /\ rcv' = NoRcv
    /\ sent' = <<>>
    /\ UNCHANGED <<stopFrame, phase, sessVars, nextCtx, nextSid, context_pool, pool_lock,
                   ownVars, sid, ctx, ret, expired, transport, msg>>

\* lines 247-251: playwright.stop() returned and stop() returns
StopProviderStopped ==
    /\ pc[MAIN] = "st_provider"
    /\ shutdown' = [shutdown EXCEPT !.provider = "stopped"]
    /\ phase' = "stopped"
    /\ pc' = [pc EXCEPT ![MAIN] = "done"]
    /\ rcv' = NoRcv
    /\ sent' = <<>>
    /\ UNCHANGED <<stopFrame, sessVars, ctxVars, ownVars, sid, ctx, ret, expired,
                   transport, msg>>

\* --------------- _attach_console_logger / _emit_session_event, lines 368-389, 693-717
\* a page of session s logs to the console: the event goes to the owners of s; an
\* owner whose send raises is unregistered.  The list of owners is in no particular
\* order; the step is labelled with the session whose page logged.
Orders(S) == {q \in [1..Cardinality(S) -> S] : \A w \in S : \E k \in DOMAIN q : q[k] = w}
RECURSIVE Sends(_, _)
Sends(ord, e) == IF ord = <<>> THEN <<>> ELSE Deliver(Head(ord), <<e>>) \o Sends(Tail(ord), e)
Failing(ord) == {k \in DOMAIN ord : transport[ord[k]] # "open"}

\* lines 384-389: the loop over the list of owners; a send that raises unregisters
\* that websocket and the loop goes on
FanOutStopAtFailure(own, ord, e) ==
    LET k == IF Failing(ord) = {} THEN Len(ord) + 1
             ELSE CHOOSE x \in Failing(ord) : \A y \in Failing(ord) : x <= y
    IN [sent |-> Sends(SubSeq(ord, 1, k - 1), e),
        own  |-> UnregisterSet(own, {ord[x] : x \in {k} \cap DOMAIN ord})]
FanOut(own, ord, e) ==
    [sent |-> Sends(ord, e),
     own  |-> UnregisterSet(own, {ord[k] : k \in Failing(ord)})]

ConsoleEmit(s) ==
    /\ env.WS_CONSOLE_STREAM_ENABLED
    /\ s < nextSid
    /\ sessCtx[s] # 0
    /\ ctxState[sessCtx[s]] = "open"
    /\ EmitEvent(sessions, event_stream_enabled, "console", s) # <<>>
    /\ s \in DOMAIN session_owners
    /\ \E ord \in Orders(session_owners[s]) :
         LET out == FanOut(session_owners, ord, Env("event", "console", s, 0))
         IN /\ sent' = out.sent
            /\ session_owners' = out.own
    /\ rcv' = IF observe THEN [conn |-> 0, m |-> Mk("console", "", s, "", 0)] ELSE NoRcv
    /\ UNCHANGED <<confVars, sessVars, ctxVars, client_sessions, flowVars, transport, msg>>

\* ------------------------------ artifacts: _handle_get_artifact, ArtifactHandler.do_GET
\* A path is a leading-slash flag and a list of segments as the client wrote them.
\* The file system: the artifact root /screenshots with the workspaces ws and other,
\* a file /f outside the root, and a link /screenshots/ws/out to the directory /.
Segs == {"f", "a", "..", "%2e%2e", "out"}
RECURSIVE SeqsUpTo(_)
SeqsUpTo(n) ==
    IF n = 0 THEN {<<>>}
    ELSE LET shorter == SeqsUpTo(n - 1)
         IN shorter \cup {Append(q, x) : q \in {r \in shorter : Len(r) = n - 1}, x \in Segs}
Paths == [abs : BOOLEAN, segs : SeqsUpTo(MaxPath)]
WorkspaceIds == {"ws"}
ArtifactRoot == <<"screenshots">>
Files == {<<"f">>, <<"screenshots", "f">>, <<"screenshots", "other", "f">>,
          <<"screenshots", "ws", "f">>, <<"screenshots", "ws", "a", "f">>}
ReadLink(p) == IF p = <<"screenshots", "ws", "out">> THEN <<>> ELSE p

\* metadata["artifacts_dir"] of a connection's session (client_<id>, lines 587 and 631):
\* the file system above is that of one such workspace
ArtifactsDir(s) == ArtifactRoot \o <<"ws">>

\* urllib.parse.unquote on the segments of a path: %2e is a dot
Unquote(segs) == [k \in 1..Len(segs) |-> IF segs[k] = "%2e%2e" THEN ".." ELSE segs[k]]

\* Path.__truediv__: an absolute right operand replaces the left one
JoinPath(dir, p) == IF p.abs THEN p.segs ELSE dir \o p.segs

\* Path.resolve() and the path walk of the operating system: links are followed as
\* they are met, '..' steps up from where the walk is (and stays at /)
RECURSIVE ResolveFrom(_, _)
ResolveFrom(at, rest) ==
    IF rest = <<>> THEN at
    ELSE IF Head(rest) = ".."
         THEN ResolveFrom(IF at = <<>> THEN <<>> ELSE Front(at), Tail(rest))
         ELSE ResolveFrom(ReadLink(Append(at, Head(rest))), Tail(rest))
Resolve(path) == ResolveFrom(<<>>, path)

\* Path.parents
Parents(path) == {SubSeq(path, 1, k) : k \in 0..(Len(path) - 1)}

\* lines 867 and 318: the candidate the containment test and the read work on
CandidateUnresolved(dir, p) == JoinPath(dir, p)
Candidate(dir, p) == Resolve(JoinPath(dir, p))

\* exists(), is_file() and read_bytes() go through the operating system's path walk
ReadFile(path) == IF Resolve(path) \in Files THEN Resolve(path) ELSE NoFile

\* lines 867-874 and 317-326: containment test, existence test, read
Serve(dir, p) ==
    LET candidate == Candidate(dir, p)
    IN IF dir \notin Parents(candidate) /\ dir # candidate
       THEN [status |-> "invalid_path", file |-> NoFile]
       ELSE IF ReadFile(candidate) = NoFile
            THEN [status |-> "not_found", file |-> NoFile]
            ELSE [status |-> "ok", file |-> ReadFile(candidate)]

\* _handle_get_artifact, lines 860-891
GetArtifact(dir, p) ==
    IF p = NoPath THEN [status |-> "path_required", file |-> NoFile] ELSE Serve(dir, p)

\* ArtifactHandler.do_GET, lines 290-333, for /artifacts/<wid>/<p>
DoGet(authorized, wid, p) ==
    IF ~authorized THEN [status |-> "unauthorized", file |-> NoFile]
    ELSE IF p = NoPath THEN [status |-> "missing_path", file |-> NoFile]
    ELSE Serve(ArtifactRoot \o <<wid>>, [abs |-> p.abs, segs |-> Unquote(p.segs)])

Answered(via, dir, p, r) ==
    [via |-> via, dir |-> dir, path |-> p, status |-> r.status, file |-> r.file]

\* a get_artifact command: no await in the handler
RecvGetArtifact(c) ==
    \E t \in Targets, p \in Paths, i \in Ids :
       LET m == Mk("ok", "get_artifact", t, "", i)
           s == Target(c, m)
           r == GetArtifact(ArtifactsDir(s), p)
       IN /\ RecvPre(c, m)
          /\ IF s \in sessions
             THEN /\ idle' = [idle EXCEPT ![s] = 0]
                  /\ artifact' = Answered("command", ArtifactsDir(s), p, r)
                  /\ sent' = Deliver(c, Started(c, m)
                                 \o IF r.status = "ok"
                                    THEN Succeed(c, m, sessions, event_stream_enabled)
                                    ELSE Fail(c, m, r.status))
             ELSE /\ sent' = Deliver(c, Started(c, m) \o Fail(c, m, "session_not_found"))
                  /\ UNCHANGED <<idle, artifact>>
          /\ UNCHANGED <<env, observe, phase, close_code, storage, shutdown, retry, reset, sessions, sessCtx, pool_eligible,
                         event_stream_enabled, ctxVars, ownVars, flowVars, transport, msg>>

\* a GET request to the artifact HTTP server (its own thread; it shares no state)
HttpGet ==
    /\ phase = "serving"
    /\ \E authorized \in BOOLEAN, wid \in WorkspaceIds, p \in Paths :
         /\ ~authorized => p = NoPath /\ wid = "ws"
         /\ artifact' = Answered("http", ArtifactRoot \o <<wid>>, p, DoGet(authorized, wid, p))
    /\ rcv' = NoRcv
    /\ sent' = <<>>
    /\ UNCHANGED <<env, observe, phase, close_code, storage, shutdown, retry, reset, sessVars, ctxVars, ownVars, flowVars,
                   transport, msg>>

\* ------- _resolve_artifact_path and _resolve_artifact_path_for_dir, lines 391-407, 525-536
\* A file name as a client writes it: a leading-slash flag and the segments between
\* the slashes.  No segments and no slash is the name that is not supplied.
NameSegs == {"f", "d", ".", "..", ".hid", "a..b"}
FileNames == [abs : BOOLEAN, segs : UNION {[1..n -> NameSegs] : n \in 0..MaxPath}]
Supplied(fn) == fn.abs \/ fn.segs # <<>>

\* Path(filename).name: parsing drops '.' segments; the name is the last part, '' if none
Parts(fn) == SelectSeq(fn.segs, LAMBDA x : x # ".")
BaseName(fn) == IF Parts(fn) = <<>> THEN "" ELSE Last(Parts(fn))

\* name.startswith(".") and ".." in name
StartsWithDot(name) == name \in {".", "..", ".hid"}
ContainsDotDot(name) == name \in {"..", "a..b"}

\* the resolver: artifact_dir / name, where joining '' gives the directory itself
ResolveArtifactPath(dir, fn) ==
    LET name == IF Supplied(fn) THEN BaseName(fn) ELSE "generated"
    IN IF StartsWithDot(name) \/ ContainsDotDot(name)
       THEN [status |-> "invalid_filename", file |-> NoFile]
       ELSE [status |-> "ok", file |-> IF name = "" THEN dir ELSE Append(dir, name)]

\* an artifact-writing command resolves the file name it was given
ResolveName ==
    /\ \E fn \in FileNames :
         artifact' = Answered("resolve", ArtifactsDir(0), fn,
                              ResolveArtifactPath(ArtifactsDir(0), fn))
    /\ rcv' = NoRcv
    /\ sent' = <<>>
    /\ UNCHANGED <<env, observe, phase, close_code, storage, shutdown, retry, reset, sessVars, ctxVars, ownVars, flowVars,
                   transport, msg>>

\* -------------------------------- async_retry, pwmcp_client/retry.py, lines 19-41
\* RetryPolicy (lines 11-16) as callers may build it, and whether on_retry is given
Policies == [attempts : 0..MaxAttempts, delay_seconds : {1}, backoff_factor : {1, 2},
             max_delay_seconds : {1, 3}]
Min(a, b) == IF a <= b THEN a ELSE b

\* line 33: the attempt that failed was the last one
LastAttemptNever(attempt, attempts) == FALSE
LastAttempt(attempt, attempts) == attempt >= attempts

\* async_retry is called: the loop of line 28 makes its first call of func, or has
\* nothing to iterate over and line 40 fails
RetryStart ==
    /\ retry.at = "idle"
    /\ \E p \in Policies, cb \in BOOLEAN :
         retry' = [retry EXCEPT !.policy = p, !.on_retry = cb, !.delay = p.delay_seconds,
                                !.attempt = IF p.attempts >= 1 THEN 1 ELSE 0,
                                !.at = IF p.attempts >= 1 THEN "func" ELSE "raised",
                                !.result = IF p.attempts >= 1 THEN @
                                           ELSE [kind |-> "assertion", of |-> 0]]
    /\ rcv' = NoRcv
    /\ sent' = <<>>
    /\ UNCHANGED <<retryFrame, sessVars, ctxVars, ownVars, flowVars, transport, msg>>

\* `await func()` returns a value, raises an error of retry_on, or raises another
\* error (lines 30-37); on_retry may raise too
RetryFuncDone ==
    /\ retry.at = "func"
    /\ \E out \in {"ok", "fail", "other"}, cb_ok \in BOOLEAN :
         LET n == retry.attempt
         IN CASE out = "ok" ->
                   retry' = [retry EXCEPT !.log = Append(@, "ok"), !.at = "returned",
                                          !.result = [kind |-> "value", of |-> n]]
              [] out = "other" ->
                   retry' = [retry EXCEPT !.log = Append(@, "other"), !.at = "raised",
                                          !.result = [kind |-> "error", of |-> n]]
              [] out = "fail" ->
                   IF LastAttempt(n, retry.policy.attempts)
                   THEN retry' = [retry EXCEPT !.log = Append(@, "fail"), !.last_error = n,
                                               !.at = "raised",
                                               !.result = [kind |-> "error", of |-> n]]
                   ELSE IF ~retry.on_retry
                   THEN retry' = [retry EXCEPT !.log = Append(@, "fail"), !.last_error = n,
                                               !.at = "sleep"]
                   ELSE IF cb_ok
                   THEN retry' = [retry EXCEPT !.log = @ \o <<"fail", "on_retry">>,
                                               !.last_error = n, !.at = "sleep"]
                   ELSE retry' = [retry EXCEPT !.log = @ \o <<"fail", "on_retry">>,
                                               !.last_error = n, !.at = "raised",
                                               !.result = [kind |-> "callback", of |-> n]]
    /\ rcv' = NoRcv
    /\ sent' = <<>>
    /\ UNCHANGED <<retryFrame, sessVars, ctxVars, ownVars, flowVars, transport, msg>>

\* asyncio.sleep(delay) returned (lines 37-38): the next iteration calls func, or the
\* range is exhausted and lines 40-41 raise last_error
RetrySleepDone ==
    /\ retry.at = "sleep"
    /\ retry' = [retry EXCEPT
                   !.delay = Min(@ * retry.policy.backoff_factor,
                                 retry.policy.max_delay_seconds),
                   !.attempt = IF @ + 1 <= retry.policy.attempts THEN @ + 1 ELSE @,
                   !.at = IF retry.attempt + 1 <= retry.policy.attempts THEN "func"
                          ELSE "raised",
                   !.result = IF retry.attempt + 1 <= retry.policy.attempts THEN @
                              ELSE [kind |-> "error", of |-> retry.last_error]]
    /\ rcv' = NoRcv
    /\ sent' = <<>>
    /\ UNCHANGED <<retryFrame, sessVars, ctxVars, ownVars, flowVars, transport, msg>>

\* ------------------------------------------------ _reset_context, lines 472-491
\* One browser context is followed from its creation through the pool and the sessions
\* that borrow it.  reset.pages is context.pages; a page has local storage content
\* (dirty) and a document other than about:blank (site) or not.
PageIds == 1..MaxPages
ResetPcs == {"clear_cookies", "evaluate", "goto", "page_close"}

PageSet(pages) == {pages[n] : n \in 1..Len(pages)}
FreshPage(pages) ==
    CHOOSE n \in PageIds \ PageSet(pages) : \A m \in PageIds \ PageSet(pages) : n <= m
WithoutPage(pages, x) == SelectSeq(pages, LAMBDA y : y # x)
Step(name, page) == [step |-> name, page |-> page]

\* start() pre-warms the pool (lines 192-195): the context followed is one of the
\* pool's, or one that a later borrow creates
PrewarmContext ==
    /\ phase = "constructed"
    /\ phase' = "serving"
    /\ \E pooled \in BOOLEAN :
          reset' = IF pooled THEN [NoReset EXCEPT !.where = "pool"] ELSE NoReset
    /\ rcv' = NoRcv
    /\ sent' = <<>>
    /\ UNCHANGED <<env, observe, artifact, close_code, storage, shutdown, retry, sessVars,
                   ctxVars, ownVars, flowVars, transport, msg>>

\* _reset_context(context) is called: line 474 awaits context.clear_cookies()
ResetBegin(r, caller) ==
    [r EXCEPT !.at = "clear_cookies", !.caller = caller, !.list = <<>>, !.i = 0,
              !.tried = {}, !.before = r.pages]

\* _reset_context returns to line 653 of _create_session, which awaits
\* context.new_page(), or to line 680 of _close_session: _release_context appends the
\* context to the pool, or closes it when other contexts have filled the pool
ResetReturns(r) ==
    IF r.caller = "create"
    THEN reset' = [r EXCEPT !.at = "new_page"]
    ELSE \E full \in BOOLEAN :
            reset' = IF full
                     THEN [r EXCEPT !.where = "closed", !.at = "idle", !.pages = <<>>,
                                    !.dirty = {}, !.site = {}, !.cookies = FALSE]
                     ELSE [r EXCEPT !.where = "pool", !.at = "idle"]

\* the loop of line 476 goes on to its next page, or is over
ResetNextPage(r) ==
    IF r.i < Len(r.list)
    THEN reset' = [r EXCEPT !.at = "evaluate", !.i = r.i + 1]
    ELSE ResetReturns(r)

\* _create_session, lines 646-652: the context is borrowed (popped from the pool, or
\* created when the pool is empty) and _reset_context is called
BorrowForCreate ==
    /\ phase = "serving"
    /\ reset.where \in {"pool", "none", "closed"}
    /\ reset.at = "idle"
    /\ reset' = ResetBegin([(IF reset.where = "pool" THEN reset ELSE NoReset)
                               EXCEPT !.where = "flow"], "create")
    /\ rcv' = NoRcv
    /\ sent' = <<>>
    /\ UNCHANGED <<resetFrame, sessVars, ctxVars, ownVars, flowVars, transport, msg>>

\* _close_session of a pool-eligible session, line 679
CloseSessionReset ==
    /\ reset.where = "session"
    /\ reset' = ResetBegin([reset EXCEPT !.where = "flow"], "close")
    /\ rcv' = NoRcv
    /\ sent' = <<>>
    /\ UNCHANGED <<resetFrame, sessVars, ctxVars, ownVars, flowVars, transport, msg>>

\* context.clear_cookies() returned, and line 475 lists the pages; or it raised, and
\* the handler of line 490 ends _reset_context
ClearCookiesDone ==
    /\ reset.at = "clear_cookies"
    /\ LET r == [reset EXCEPT !.tried = @ \cup {Step("clear_cookies", 0)}]
       IN \E ok \in BOOLEAN :
             IF ok
             THEN ResetNextPage([r EXCEPT !.cookies = FALSE, !.list = r.pages, !.i = 0])
             ELSE ResetReturns(r)
    /\ rcv' = NoRcv
    /\ sent' = <<>>
    /\ UNCHANGED <<resetFrame, sessVars, ctxVars, ownVars, flowVars, transport, msg>>

\* page.evaluate("localStorage.clear(); sessionStorage.clear();") returned or raised
\* (lines 477-480)
EvaluateDone ==
    /\ reset.at = "evaluate"
    /\ LET page == reset.list[reset.i]
           r == [reset EXCEPT !.tried = @ \cup {Step("evaluate", page)}, !.at = "goto"]
       IN \E ok \in BOOLEAN :
             reset' = IF ok THEN [r EXCEPT !.dirty = @ \ {page}] ELSE r
    /\ rcv' = NoRcv
    /\ sent' = <<>>
    /\ UNCHANGED <<resetFrame, sessVars, ctxVars, ownVars, flowVars, transport, msg>>

\* page.goto("about:blank") returned or raised (lines 481-484); line 485 compares the
\* page with the first of the list
GotoDone ==
    /\ reset.at = "goto"
    /\ LET page == reset.list[reset.i]
           r == [reset EXCEPT !.tried = @ \cup {Step("goto", page)}]
       IN \E ok \in BOOLEAN :
             LET q == IF ok THEN [r EXCEPT !.site = @ \ {page}] ELSE r
             IN IF page # q.list[1]
                THEN reset' = [q EXCEPT !.at = "page_close"]
                ELSE ResetNextPage(q)
    /\ rcv' = NoRcv
    /\ sent' = <<>>
    /\ UNCHANGED <<resetFrame, sessVars, ctxVars, ownVars, flowVars, transport, msg>>

\* page.close() of an extra page returned or raised (lines 486-489)
PageCloseDone ==
    /\ reset.at = "page_close"
    /\ LET page == reset.list[reset.i]
           r == [reset EXCEPT !.tried = @ \cup {Step("close", page)}]
       IN \E ok \in BOOLEAN :
             ResetNextPage(IF ok
                           THEN [r EXCEPT !.pages = WithoutPage(@, page),
                                          !.dirty = @ \ {page}, !.site = @ \ {page}]
                           ELSE r)
    /\ rcv' = NoRcv
    /\ sent' = <<>>
    /\ UNCHANGED <<resetFrame, sessVars, ctxVars, ownVars, flowVars, transport, msg>>

\* context.new_page() returned (line 653) and the session is built, or it raised and
\* _create_session fails, the context in no session and not in the pool
NewPageDone ==
    /\ reset.at = "new_page"
    /\ \E ok \in BOOLEAN :
          IF ok
          THEN /\ Len(reset.pages) < MaxPages
               /\ reset' = [reset EXCEPT !.at = "idle", !.where = "session",
                                         !.pages = Append(@, FreshPage(reset.pages))]
          ELSE reset' = [reset EXCEPT !.at = "idle", !.where = "dropped"]
    /\ rcv' = NoRcv
    /\ sent' = <<>>
    /\ UNCHANGED <<resetFrame, sessVars, ctxVars, ownVars, flowVars, transport, msg>>

\* the session's commands and the sites it visits: cookies are set, a page stores data
\* or leaves about:blank, a site opens another page
SiteActivity ==
    /\ reset.where = "session"
    /\ \/ reset' = [reset EXCEPT !.cookies = TRUE]
       \/ \E page \in PageSet(reset.pages) :
             reset' = [reset EXCEPT !.dirty = @ \cup {page}, !.site = @ \cup {page}]
       \/ /\ Len(reset.pages) < MaxPages
          /\ reset' = [reset EXCEPT !.pages = Append(@, FreshPage(reset.pages)),
                                    !.site = @ \cup {FreshPage(reset.pages)}]
    /\ reset' # reset
    /\ rcv' = NoRcv
    /\ sent' = <<>>
    /\ UNCHANGED <<resetFrame, sessVars, ctxVars, ownVars, flowVars, transport, msg>>

\* every owner set holds exactly one connection: lines 589 and 750 register a
\* connection for a session it has just created, and for no other
OwnerSetsSingleton ==
    \A s \in DOMAIN session_owners : Cardinality(session_owners[s]) = 1

\* ------------------------------------------------------------ specifications
\* the session, pool and sweep life cycle under every interleaving
Next ==
    \/ Start
    \/ \E c \in Conns : Within(LifeSids) /\ Accept(c)
    \/ \E c \in Conns : ClientClose(c)
    \/ \E c \in Conns : LoopEnd(c)
    \/ \E c \in Conns : CreateNewContext(c)
    \/ \E c \in Conns : CreateNewPage(c)
    \/ \E p \in Procs : CloseResetDone(p)
    \/ \E p \in Procs : CloseLockedDone(p)
    \/ \E p \in Procs : CloseDone(p)
    \/ \E c \in Conns : RecvNonObject(c)
    \/ \E c \in Conns : Within(LifeSids) /\ RecvCreate(c)
    \/ \E c \in Conns : RecvClose(c)
    \/ \E c \in Conns : RecvImport(c)
    \/ \E c \in Conns : ImportCloseDone(c)
    \/ \E c \in Conns : ImportNewContext(c)
    \/ \E c \in Conns : ImportNewPage(c)
    \/ SweepScan
    \/ Tick

Spec == Init /\ [][Next]_vars

\* borrow and release under every interleaving, with the pool on and room for two
\* sessions: creation, close_session and teardown of two connections
InitPool == InitWith(EnvChoices({2}, {TRUE}), TRUE)

NextPool ==
    \/ Start
    \/ \E c \in Conns : Accept(c)
    \/ \E c \in Conns : ClientClose(c)
    \/ \E c \in Conns : LoopEnd(c)
    \/ \E c \in Conns : CreateLockAcquired(c)
    \/ \E c \in Conns : CreateNewContext(c)
    \/ \E c \in Conns : CreateNewPage(c)
    \/ \E p \in Procs : CloseResetDone(p)
    \/ \E p \in Procs : CloseLockAcquired(p)
    \/ \E p \in Procs : CloseLockedDone(p)
    \/ \E p \in Procs : CloseDone(p)
    \/ \E c \in Conns : RecvCreate(c)
    \/ \E c \in Conns : RecvClose(c)

SpecPool == InitPool /\ [][NextPool]_vars

\* the command dispatcher and the event streams, observed on the wire
InitDispatch == InitWith(EnvChoices({2}, {FALSE}), TRUE)

NextDispatch ==
    \/ Start
    \/ \E c \in Conns : Within(LifeSids) /\ Accept(c)
    \/ \E c \in Conns : ClientClose(c)
    \/ \E c \in Conns : LoopEnd(c)
    \/ \E c \in Conns : CreateNewContext(c)
    \/ \E c \in Conns : CreateNewPage(c)
    \/ \E p \in Procs : CloseDone(p)
    \/ \E c \in Conns : RecvBadJson(c)
    \/ \E c \in Conns : RecvNonObject(c)
    \/ \E c \in Conns : RecvBadArgs(c)
    \/ \E c \in Conns : RecvUnknown(c)
    \/ \E c \in Conns : RecvHealth(c)
    \/ \E c \in Conns : RecvEventStream(c)
    \/ \E c \in Conns : Within(LifeSids) /\ RecvCreate(c)
    \/ \E c \in Conns : RecvClose(c)
    \/ \E c \in Conns : RecvPage(c)
    \/ \E c \in Conns : PageDone(c)
    \/ \E s \in Sids : ConsoleEmit(s)

SpecDispatch == InitDispatch /\ [][NextDispatch]_vars

\* create_session and close_session run one after the other: a step is taken only
\* while no other flow is inside an operation
Busy(p) == pc[p] \notin {"idle", "loop", "done", "sleep"}
Alone(p) == \A q \in Procs \ {p} : ~Busy(q)

InitSeq == InitWith(EnvChoices({1, 2}, BOOLEAN), TRUE)

NextSeq ==
    \/ Start
    \/ \E c \in Conns : Alone(c) /\ Accept(c)
    \/ \E c \in Conns : Alone(c) /\ ClientClose(c)
    \/ \E c \in Conns : Alone(c) /\ LoopEnd(c)
    \/ \E c \in Conns : Alone(c) /\ CreateNewContext(c)
    \/ \E c \in Conns : Alone(c) /\ CreateNewPage(c)
    \/ \E p \in Procs : Alone(p) /\ CloseResetDone(p)
    \/ \E p \in Procs : Alone(p) /\ CloseLockedDone(p)
    \/ \E p \in Procs : Alone(p) /\ CloseDone(p)
    \/ \E c \in Conns : Alone(c) /\ RecvCreate(c)
    \/ \E c \in Conns : Alone(c) /\ RecvClose(c)

SpecSeq == InitSeq /\ [][NextSeq]_vars

\* the idle sweep next to commands and teardown, with provider calls that may raise;
\* the sweep wakes up again and again and every provider call of a close returns
InitSweep == InitWith(EnvChoices({2}, BOOLEAN), FALSE)

CloseStep(p) ==
    \/ CloseResetDone(p)
    \/ CloseLockedDone(p)
    \/ CloseLockedRaises(p)
    \/ CloseDone(p)
    \/ CloseDoneRaises(p)

NextSweep ==
    \/ Start
    \/ \E c \in Conns : Within(LifeSids) /\ Accept(c)
    \/ \E c \in Conns : ClientClose(c)
    \/ \E c \in Conns : LoopEnd(c)
    \/ \E c \in Conns : CreateNewContext(c)
    \/ \E c \in Conns : CreateNewPage(c)
    \/ \E p \in Procs : CloseStep(p)
    \/ \E c \in Conns : RecvClose(c)
    \/ \E c \in Conns : RecvPage(c)
    \/ \E c \in Conns : PageDone(c)
    \/ SweepScan
    \/ Tick

SweepFairness ==
    /\ WF_vars(SweepScan)
    /\ \A p \in Procs : WF_vars(CloseStep(p))

SpecSweep == InitSweep /\ [][NextSweep]_vars /\ SweepFairness

\* artifact requests, by command and by HTTP, with one connection and its session
InitArtifact == InitWith(EnvChoices({1}, {FALSE}), TRUE)
NextArtifact ==
    \/ Start
    \/ Accept(1)
    \/ CreateNewContext(1)
    \/ CreateNewPage(1)
    \/ RecvGetArtifact(1)
    \/ HttpGet
SpecArtifact == InitArtifact /\ [][NextArtifact]_vars

\* connections that have to authenticate first
InitAuth ==
    InitWith({[e EXCEPT !.AUTH_REQUIRED = TRUE] : e \in EnvChoices({1, 2}, {FALSE})}, TRUE)
NextAuth ==
    \/ Start
    \/ \E c \in Conns : \/ Connect(c)
                        \/ Within(LifeSids) /\ AuthRecv(c)
                        \/ AuthTimeout(c)
                        \/ AuthClosed(c)
                        \/ ClientClose(c)
                        \/ LoopEnd(c)
                        \/ RecvHealth(c)
                        \/ RecvPage(c)
                        \/ PageDone(c)
    \/ \E p \in Procs : \/ CreateNewContext(p)
                        \/ CreateNewPage(p)
                        \/ CloseDone(p)
SpecAuth == InitAuth /\ [][NextAuth]_vars

\* the fan-out of _emit_session_event with the owner sets as its input: two connections
\* in their read loops, each an owner of its implicit session, and any further owners
\* (the registrations at lines 589 and 750 themselves only ever build sets of one)
InitFanout ==
    /\ env \in EnvChoices({2}, {FALSE})
    /\ observe = TRUE
    /\ phase = "serving"
    /\ artifact = NoArtifact
    /\ close_code = [c \in Conns |-> 0]
    /\ storage = NoStorage
    /\ shutdown = NoShutdown
    /\ retry = NoRetry
    /\ reset = NoReset
    /\ sessions = Conns
    /\ sessCtx = [s \in Sids |-> IF s \in Conns THEN s ELSE 0]
    /\ pool_eligible = [s \in Sids |-> FALSE]
    /\ event_stream_enabled = [s \in Sids |-> TRUE]
    /\ idle = [s \in Sids |-> 0]
    /\ ctxState = [k \in Ctxs |-> IF k \in Conns THEN "open" ELSE "none"]
    /\ nextCtx = NumConns + 1
    /\ nextSid = NumConns + 1
    /\ context_pool = <<>>
    /\ pool_lock = NoLock
    /\ session_owners \in {f \in [Conns -> SUBSET Conns] : \A c \in Conns : c \in f[c]}
    /\ client_sessions = [c \in Conns |-> c]
    /\ pc = [p \in Procs |-> IF p = SWEEPER THEN "sleep" ELSE IF p = MAIN THEN "idle" ELSE "loop"]
    /\ sid = [p \in Procs |-> 0]
    /\ ctx = [p \in Procs |-> 0]
    /\ ret = [p \in Procs |-> ""]
    /\ expired = {}
    /\ transport = [c \in Conns |-> "open"]
    /\ msg = [c \in Conns |-> NoMsg]
    /\ rcv = NoRcv
    /\ sent = <<>>
NextFanout ==
    \/ \E s \in Sids : ConsoleEmit(s)
    \/ \E c \in Conns : ClientClose(c)
    \/ \E c \in Conns : LoopEnd(c)
    \/ \E p \in Procs : CloseDone(p)
SpecFanout == InitFanout /\ [][NextFanout]_vars

\* room for one session: creation, close_session and teardown of two connections
InitSlot == InitWith(EnvChoices({1}, BOOLEAN), TRUE)
NextSlot ==
    \/ Start
    \/ \E c \in Conns : \/ Accept(c)
                        \/ ClientClose(c)
                        \/ LoopEnd(c)
                        \/ CreateLockAcquired(c)
                        \/ CreateNewContext(c)
                        \/ CreateNewPage(c)
                        \/ RecvCreate(c)
                        \/ RecvClose(c)
    \/ \E p \in Procs : \/ CloseResetDone(p)
                        \/ CloseLockedDone(p)
                        \/ CloseDone(p)
SpecSlot == InitSlot /\ [][NextSlot]_vars

\* export and import of storage state by one connection, across its sessions
InitRoundTrip == InitWith(EnvChoices({1}, {FALSE}), TRUE)
NextRoundTrip ==
    \/ Start
    \/ Accept(1)
    \/ CreateNewContext(1)
    \/ CreateNewPage(1)
    \/ nextSid <= LifeSids /\ RecvCreate(1)
    \/ nextSid <= LifeSids /\ RecvCreateIn(1)
    \/ RecvClose(1)
    \/ CloseDone(1)
    \/ \E s \in Sids : Browse(s)
    \/ RecvExport(1)
    \/ ExportDone(1)
    \/ RecvImport(1)
    \/ ImportCloseDone(1)
    \/ ImportNewContext(1)
    \/ ImportNewPage(1)
SpecRoundTrip == InitRoundTrip /\ [][NextRoundTrip]_vars

\* shutdown: connections come and go, the sweep runs, then stop() is called
InitStop == InitWith(EnvChoices({2}, BOOLEAN), FALSE)
NextStop ==
    \/ Start
    \/ \E c \in Conns : Accept(c)
    \/ \E c \in Conns : RecvCreate(c)
    \/ \E c \in Conns : RecvClose(c)
    \/ \E c \in Conns : ClientClose(c)
    \/ \E c \in Conns : LoopEnd(c)
    \/ \E c \in Conns : CreateLockAcquired(c)
    \/ \E c \in Conns : CreateNewContext(c)
    \/ \E c \in Conns : CreateNewPage(c)
    \/ \E p \in Procs : (p = SWEEPER => phase = "serving") /\ CloseStep(p)
    \/ \E p \in Procs : (p = SWEEPER => phase = "serving") /\ CloseLockAcquired(p)
    \/ SweepScan
    \/ Tick
    \/ StopBegin
    \/ SweepCancelled
    \/ StopAwaited
    \/ StopCloseNext
    \/ StopPoolBegin
    \/ StopPoolClosed
    \/ StopBrowserClosed
    \/ StopProviderStopped
SpecStop == InitStop /\ [][NextStop]_vars

\* the resolver of artifact file names, applied to every file name of up to MaxPath segments
InitResolve == InitWith(EnvChoices({1}, {FALSE}), FALSE)
NextResolve == ResolveName
SpecResolve == InitResolve /\ [][NextResolve]_vars

\* commands with and without a session lookup next to the idle sweep, on an observed wire
InitTouch == InitWith(EnvChoices({2}, {FALSE}), TRUE)
NextTouch ==
    \/ Start
    \/ \E c \in Conns : Within(LifeSids) /\ Accept(c)
    \/ \E c \in Conns : CreateNewContext(c)
    \/ \E c \in Conns : CreateNewPage(c)
    \/ \E p \in Procs : CloseDone(p)
    \/ \E p \in Procs : CloseDoneRaises(p)
    \/ \E c \in Conns : RecvPage(c)
    \/ \E c \in Conns : PageDone(c)
    \/ \E c \in Conns : RecvEventStream(c)
    \/ \E c \in Conns : RecvHealth(c)
    \/ SweepScan
    \/ Tick
SpecTouch == InitTouch /\ [][NextTouch]_vars

\* one call of async_retry, for every policy and every outcome of the calls it makes
InitRetry == InitWith(EnvChoices({1}, {FALSE}), FALSE)
NextRetry ==
    \/ RetryStart
    \/ RetryFuncDone
    \/ RetrySleepDone
SpecRetry == InitRetry /\ [][NextRetry]_vars

\* start-up under every combination of pooling, global HAR recording and video recording
InitPrewarm ==
    InitWith({[e EXCEPT !.PLAYWRIGHT_VIDEO_DIR = v, !.WS_HAR_ENABLED = h] :
                 e \in EnvChoices({1}, BOOLEAN), v \in BOOLEAN, h \in BOOLEAN}, FALSE)
NextPrewarm ==
    \/ Start
    \/ \E c \in Conns : \/ Accept(c)
                        \/ ClientClose(c)
                        \/ LoopEnd(c)
                        \/ CreateNewContext(c)
                        \/ CreateNewPage(c)
                        \/ RecvClose(c)
    \/ \E p \in Procs : \/ CloseResetDone(p)
                        \/ CloseLockedDone(p)
                        \/ CloseDone(p)
SpecPrewarm == InitPrewarm /\ [][NextPrewarm]_vars

\* one context through borrow, reset, session, reset and release, again and again
InitReset == InitWith(EnvChoices({1}, {TRUE}), FALSE)
NextReset ==
    \/ PrewarmContext
    \/ BorrowForCreate
    \/ CloseSessionReset
    \/ ClearCookiesDone
    \/ EvaluateDone
    \/ GotoDone
    \/ PageCloseDone
    \/ NewPageDone
    \/ SiteActivity
SpecReset == InitReset /\ [][NextReset]_vars

\* commands with and without their required argument, on an observed wire, while time
\* passes
InitArgs == InitWith(EnvChoices({2}, {FALSE}), TRUE)
NextArgs ==
    \/ Start
    \/ \E c \in Conns : Within(LifeSids) /\ Accept(c)
    \/ \E c \in Conns : CreateNewContext(c)
    \/ \E c \in Conns : CreateNewPage(c)
    \/ \E c \in Conns : RecvPage(c)
    \/ \E c \in Conns : PageDone(c)
    \/ \E c \in Conns : RecvImport(c)
    \/ \E c \in Conns : ImportCloseDone(c)
    \/ \E c \in Conns : ImportNewContext(c)
    \/ \E c \in Conns : ImportNewPage(c)
    \/ Tick
SpecArgs == InitArgs /\ [][NextArgs]_vars

\* connections that create further sessions and go away, with room for three sessions
InitTeardown == InitWith(EnvChoices({3}, {FALSE}), FALSE)
NextTeardown ==
    \/ Start
    \/ \E c \in Conns : \/ Accept(c)
                        \/ ClientClose(c)
                        \/ LoopEnd(c)
                        \/ CreateNewContext(c)
                        \/ CreateNewPage(c)
                        \/ RecvCreate(c)
                        \/ RecvClose(c)
    \/ \E p \in Procs : \/ CloseDone(p)
                        \/ CloseDoneRaises(p)
SpecTeardown == InitTeardown /\ [][NextTeardown]_vars

\* ------------------------------------------------------------------ claims
HasError(text) == \E i \in 1..Len(sent) : sent[i].env.type = "error" /\ sent[i].env.name = text

\* C1: when create_session and close_session operations run one after the other, each
\* to completion, the registry never holds more than MAX_SESSIONS sessions
C1_SequentialLimit == Cardinality(sessions) <= MAX_SESSIONS

\* the registry is full again after a session was closed and another created, and a
\* further creation has just been refused
C1_Witness ==
    /\ Cardinality(sessions) = MAX_SESSIONS
    /\ nextSid > MAX_SESSIONS + 1
    /\ HasError("max_sessions")

\* C2: also when creations of different connections overlap, no step that adds a
\* session to the registry takes it above MAX_SESSIONS
C2_ConcurrentLimit ==
    [][Cardinality(sessions') > Cardinality(sessions)
         => Cardinality(sessions') <= MAX_SESSIONS]_vars

\* the step is a session creation attempted by c: the connection is accepted, or its
\* dispatcher reads a create_session command
CreationAttempt(c) ==
    \/ pc[c] = "idle" /\ pc'[c] # "idle"
    \/ rcv'.conn = c /\ rcv'.m.cmd = "create_session" /\ rcv' # rcv

\* C3: a creation attempted while the registry holds MAX_SESSIONS sessions (or more)
\* fails with the capacity error: the accepted connection's handler ends, the command
\* is answered with the error envelope; registry, pool and ownership map are unchanged
C3_RefusedAtCapacity ==
    [][\A c \in Conns :
         (CreationAttempt(c) /\ Cardinality(sessions) >= MAX_SESSIONS) =>
            /\ sessions' = sessions
            /\ sessCtx' = sessCtx
            /\ context_pool' = context_pool
            /\ session_owners' = session_owners
            /\ nextSid' = nextSid
            /\ IF pc[c] = "idle" THEN pc'[c] = "done"
               ELSE /\ pc'[c] = "loop"
                    /\ sent' # <<>>
                    /\ Last(sent') = [to |-> c,
                                      env |-> Env("error", "max_sessions", 0, rcv'.m.id)]
    ]_vars

\* a create_session command has just been refused with the registry full and a
\* context waiting in the pool
C3_Witness ==
    /\ rcv.m.cmd = "create_session"
    /\ HasError("max_sessions")
    /\ Cardinality(sessions) = MAX_SESSIONS
    /\ context_pool # <<>>
    /\ DOMAIN session_owners # {}

\* C4: no context is in the pool while it is the context of a session in the registry,
\* and no two sessions in the registry hold the same context
C4_ExclusiveContexts ==
    /\ \A s \in sessions : \A i \in 1..Len(context_pool) : context_pool[i] # sessCtx[s]
    /\ \A s1 \in sessions : \A s2 \in sessions \ {s1} : sessCtx[s1] # sessCtx[s2]

\* a pooled context next to a registered session that holds a context which came out
\* of the pool
C4_Witness ==
    /\ context_pool # <<>>
    /\ \E s \in sessions : pool_eligible[s] /\ sessCtx[s] <= BROWSER_POOL_SIZE

Owners(own, s) == IF s \in DOMAIN own THEN own[s] ELSE {}
Owns(own, c) == {s \in DOMAIN own : c \in own[s]}

\* C6: every event envelope of a step goes to an owner of its session, and every
\* owner of that session (whose transport is open) gets it
C6_EventsToOwners ==
    [][\A i \in 1..Len(sent') :
         sent'[i].env.type = "event" =>
            LET s == sent'[i].env.sid
            IN /\ sent'[i].to \in Owners(session_owners, s) \cup Owners(session_owners', s)
               /\ \A w \in Owners(session_owners, s) \cap Owners(session_owners', s) :
                     transport[w] = "open" =>
                        \E j \in 1..Len(sent') : sent'[j] = [to |-> w, env |-> sent'[i].env]
    ]_vars

\* C7: a connection whose handler has ended is in no owner set and no envelope is
\* delivered to it; a step that removes a connection from owner sets leaves every other
\* connection's memberships as they were
C7_NoEventAfterUnregister ==
    [][\A c \in Conns :
         /\ pc'[c] = "done" =>
               /\ Owns(session_owners', c) = {}
               /\ \A i \in 1..Len(sent') : sent'[i].to # c
         /\ (Owns(session_owners', c) # Owns(session_owners, c)
             /\ Owns(session_owners', c) \subseteq Owns(session_owners, c)) =>
               \A d \in Conns \ {c} : Owns(session_owners', d) = Owns(session_owners, d)
    ]_vars

\* connection c has gone and its session has left the ownership map; d still owns its
\* own session and has just received a console event of it
C7_Witness ==
    \E c \in Conns : \E d \in Conns \ {c} :
       /\ pc[c] = "done"
       /\ transport[d] = "open"
       /\ \E s \in DOMAIN session_owners :
            /\ session_owners[s] = {d}
            /\ sent = <<[to |-> d, env |-> Env("event", "console", s, 0)]>>
       /\ \E s2 \in Sids \ DOMAIN session_owners : sessCtx[s2] # 0

\* the context a close in flow p hands to the pool or closes when it resumes
ReleasedCtx(p) == IF pc[p] = "cl_reset" THEN sessCtx[sid[p]] ELSE ctx[p]
Pooled == {context_pool[i] : i \in 1..Len(context_pool)}

C9_LoopSurvives ==
    [][\A c \in Conns :
         rcv'.conn = c =>
            /\ pc'[c] # "done"
            /\ ret'[c] # "teardown"
            /\ (rcv'.m.shape # "ok" \/ rcv'.m.cmd = "bogus") =>
                  /\ pc'[c] = "loop"
                  /\ sent' # <<>>
                  /\ Last(sent').to = c
                  /\ Last(sent').env.type = "error"
    ]_vars

\* the server state a command can change
ServerState == <<sessions, sessCtx, pool_eligible, event_stream_enabled, idle, ctxState,
                 nextCtx, nextSid, context_pool, pool_lock, session_owners,
                 client_sessions, pc, sid, ctx, ret, expired, transport, msg>>

C11_SweepRemovesExpired ==
    /\ [][/\ pc[SWEEPER] = "sleep" =>
               \A s \in sessions : IsExpired(s) /\ pc'[SWEEPER] # "sleep" =>
                  s \notin sessions' \/ s \in expired'
          /\ \A s \in expired : s \in expired' \/ s \notin sessions'
          /\ pc'[SWEEPER] = "sleep" => expired' = {}
          /\ (pc[SWEEPER] # "sleep" /\ pc'[SWEEPER] = "sleep") => expired \cap sessions' = {}
         ]_vars
    /\ \A s \in Sids :
          (s \in sessions /\ IsExpired(s)) ~> (s \notin sessions \/ ~IsExpired(s))

\* the sweep is closing the second of two expired sessions after the close of a
\* context raised (the context of the first is still open)
C11_Witness ==
    /\ pc[SWEEPER] \in {"cl_close", "cl_reset"}
    /\ sessions = {}
    /\ expired = {}
    /\ \E s \in Sids \ {sid[SWEEPER]} :
          /\ sessCtx[s] # 0
          /\ ctxState[sessCtx[s]] = "open"
          /\ sessCtx[s] \notin Pooled
          /\ \A c \in Conns : pc[c] = "loop" /\ sid[c] = 0

\* the suspension points of _close_session
ClosePcs == {"cl_reset", "cl_lock", "cl_closelocked", "cl_close"}

\* C12: a close_session for an id that is not in the registry changes nothing and is
\* answered with a response; a flow goes into the release or close of a session's
\* context only by taking that session out of the registry, so of two overlapping
\* closes of one id only one releases or closes the context
C12_CloseIdempotent ==
    [][/\ \A c \in Conns :
            (/\ rcv'.conn = c /\ rcv' # rcv
             /\ rcv'.m.cmd = "close_session"
             /\ Target(c, rcv'.m) \notin sessions) =>
               /\ UNCHANGED ServerState
               /\ sent' # <<>>
               /\ Last(sent') = [to |-> c,
                                 env |-> Env("response", "close_session", 0, rcv'.m.id)]
       /\ \A p \in Procs :
            (pc'[p] \in {"cl_reset", "cl_close"} /\ (pc[p] \notin ClosePcs \/ sid'[p] # sid[p]))
               => sid'[p] \in sessions \ sessions'
       /\ \A p \in Procs : \A q \in Procs \ {p} :
            ~(pc'[p] \in ClosePcs /\ pc'[q] \in ClosePcs /\ sid'[p] = sid'[q])
    ]_vars

\* a close_session for a session that another flow is closing at this moment has just
\* been answered with a response
C12_Witness ==
    /\ rcv.m.cmd = "close_session"
    /\ sent # <<>>
    /\ Last(sent).env.type = "response"
    /\ \E q \in Procs \ {rcv.conn} :
          /\ pc[q] \in ClosePcs
          /\ sid[q] = Target(rcv.conn, rcv.m)

\* envelopes by kind
IsReply(e) == e.env.type \in {"response", "error"}
IsEvent(e, name) == e.env.type = "event" /\ e.env.name = name

\* events for session s are switched on, given registry sess and stream flags es
EventOn(sess, es, s) == env.WS_EVENT_STREAM_ENABLED /\ (s \notin sess \/ es[s])

\* the message is a well-formed request for a command of the handler table
Known(m) == m.shape = "ok" /\ m.cmd # "bogus"

\* connection c is inside the handler of a command
InCommand(c) == msg[c] # NoMsg

C14_NoEventWhileDisabled ==
    [][\A i \in 1..Len(sent') :
         sent'[i].env.type = "event" =>
            /\ env.WS_EVENT_STREAM_ENABLED
            /\ \A s \in Sids :
                  sent'[i].env.sid = s =>
                     event_stream_enabled[s] \/ event_stream_enabled'[s]
    ]_vars

\* C15: every session in the registry holds an open context at all times, also while
\* an import_storage_state replaces the context and after an import that failed
C15_OneOpenContext ==
    \A s \in sessions : ctxState[sessCtx[s]] = "open"

\* the path of the last artifact request as the server reads it, where it leads, and
\* whether that is outside the workspace's artifact directory
RequestedSegs ==
    IF artifact.via = "http" THEN Unquote(artifact.path.segs) ELSE artifact.path.segs
LeadsTo == Resolve(JoinPath(artifact.dir, [abs |-> artifact.path.abs, segs |-> RequestedSegs]))
Under(dir, path) == Len(path) >= Len(dir) /\ SubSeq(path, 1, Len(dir)) = dir
HasDotDot == \E k \in 1..Len(artifact.path.segs) : artifact.path.segs[k] \in {"..", "%2e%2e"}

AuthRefused(c) ==
    /\ pc[c] = "auth"
    /\ pc'[c] = "done"
    /\ transport[c] = "open"
    /\ \/ rcv' = NoRcv
       \/ rcv'.conn = c /\ rcv'.m.shape \in {"auth_bad_type", "auth_bad_token"}

\* C17: when the handshake is refused (wrong type or token, or no first message in time)
\* the server sends an error envelope to the client and closes the connection with an
\* error close code
C17_RefusalSendsError ==
    [][\A c \in Conns :
         AuthRefused(c) =>
            /\ \E i \in 1..Len(sent') : sent'[i].to = c /\ sent'[i].env.type = "error"
            /\ transport'[c] = "closed"
            /\ close_code'[c] = 1008
    ]_vars

\* connection c has not passed the handshake
PreSession(c) == pc[c] \in {"idle", "auth"}
OwnsNothing(own, c) == \A s \in DOMAIN own : c \notin own[s]
SentTo(c, es) == {es[i].env : i \in {k \in 1..Len(es) : es[k].to = c}}

\* C18: with authentication required, a connection that has not sent the matching token
\* as its first message has no session, owns nothing and gets none of its messages
\* dispatched; the matching token is answered with auth_success, the implicit session is
\* created after that, connected carries its id, and responses come only after connected
C18_AuthGatesSession ==
    /\ [](\A c \in Conns :
            PreSession(c) =>
               client_sessions[c] = 0 /\ sid[c] = 0 /\ OwnsNothing(session_owners, c))
    /\ [][\A c \in Conns :
            /\ (PreSession(c) /\ ~(rcv'.conn = c /\ rcv'.m.shape = "auth_ok")) =>
                  /\ pc'[c] \in {"idle", "auth", "done"}
                  /\ client_sessions'[c] = 0 /\ OwnsNothing(session_owners', c)
                  /\ pc'[c] # pc[c] => (sessions' = sessions /\ nextSid' = nextSid)
                  /\ \A e \in SentTo(c, sent') : e.type = "error" /\ e.name = "auth_failed"
            /\ (PreSession(c) /\ rcv'.conn = c /\ rcv'.m.shape = "auth_ok") =>
                  /\ pc[c] = "auth"
                  /\ sent' = <<[to |-> c, env |-> Env("auth_success", "", 0, 0)]>>
                  /\ client_sessions'[c] = 0 /\ sessions' = sessions
            /\ \A e \in SentTo(c, sent') :
                  /\ e.type = "auth_success" => pc[c] = "auth"
                  /\ e.type = "connected" =>
                        /\ ~PreSession(c) /\ ret[c] = "connect" /\ pc'[c] = "loop"
                        /\ e.sid = client_sessions'[c] /\ e.sid \in sessions'
                        /\ c \in session_owners'[e.sid]
                  /\ e.type = "response" => (~PreSession(c) /\ ret[c] # "connect")
            /\ (ret[c] = "connect" /\ pc'[c] = "loop") =>
                  \E e \in SentTo(c, sent') : e.type = "connected"
      ]_vars
C18_Witness ==
    /\ env.AUTH_REQUIRED
    /\ \E c \in Conns :
         /\ pc[c] = "loop"
         /\ client_sessions[c] \in sessions
         /\ \E e \in SentTo(c, sent) : e.type = "connected" /\ e.sid = client_sessions[c]

\* C19: a creation refused because the session limit is reached - by a create_session
\* command or for the implicit session of an accepted connection - sends the capacity
\* error to the caller as an error envelope and leaves the caller's connection open
C19_CapacityErrorSurfaced ==
    [][\A c \in Conns :
         (CreationAttempt(c) /\ Cardinality(sessions) >= MAX_SESSIONS) =>
            /\ \E i \in 1..Len(sent') :
                  /\ sent'[i].to = c
                  /\ sent'[i].env.type = "error"
                  /\ sent'[i].env.name = "max_sessions"
            /\ transport'[c] = "open"
            /\ pc'[c] = "loop"
    ]_vars

\* a create_session command of connection c ends in this step: it was refused on
\* receipt, or its creation flow returns to the read loop
CreateCommandEnds(c) ==
    /\ pc'[c] = "loop"
    /\ \/ pc[c] = "loop" /\ rcv'.conn = c /\ rcv'.m.cmd = "create_session"
       \/ pc[c] \in {"cs_lock", "cs_newctx", "cs_newpage"} /\ ret[c] = "command"

\* C20: a create_session command that succeeds leaves the new session id in the
\* ownership map with the invoking connection in its owner set, one that fails leaves the
\* map as it was, and a connection whose handler has ended is in no owner set
C20_CreateRegistersOwner ==
    /\ [](\A c \in Conns : pc[c] = "done" => OwnsNothing(session_owners, c))
    /\ [][\A c \in Conns :
            CreateCommandEnds(c) =>
               IF sessions' # sessions
               THEN /\ sessions' = sessions \cup {sid[c]}
                    /\ sid[c] \in DOMAIN session_owners'
                    /\ c \in session_owners'[sid[c]]
                    /\ \A d \in Conns \ {c} : d \notin session_owners'[sid[c]]
                    /\ \A s \in DOMAIN session_owners : session_owners'[s] = session_owners[s]
               ELSE session_owners' = session_owners
      ]_vars
\* a connection owns its implicit session and one it created by command
C20_Witness ==
    \E c \in Conns :
       /\ pc[c] = "loop"
       /\ \E i \in 1..Len(sent) : sent[i].to = c /\ sent[i].env = Env("response", "create_session", 0, sent[i].env.id)
       /\ \E s \in DOMAIN session_owners :
             s # client_sessions[c] /\ s \in sessions /\ c \in session_owners[s]

\* C21: in the fan-out of an event of session s, every owner whose send fails is removed
\* from the ownership map, and every other owner of s is sent the event, once, and
\* stays an owner
C21_FanOutSurvivesFailure ==
    [][\A s \in DOMAIN session_owners :
         (rcv'.m.shape = "console" /\ rcv'.m.target = s) =>
            LET e      == Env("event", "console", s, 0)
                open   == {w \in session_owners[s] : transport[w] = "open"}
                failed == session_owners[s] \ open
            IN /\ \A w \in failed : OwnsNothing(session_owners', w)
               /\ \A w \in open :
                     /\ Cardinality({i \in 1..Len(sent') : sent'[i] = [to |-> w, env |-> e]}) = 1
                     /\ s \in DOMAIN session_owners' /\ w \in session_owners'[s]
               /\ \A i \in 1..Len(sent') : sent'[i].to \in open /\ sent'[i].env = e
    ]_vars
\* a fan-out has just removed an owner whose connection was closed and has delivered the
\* event to another owner
C21_Witness ==
    /\ rcv.m.shape = "console"
    /\ rcv.m.target \in DOMAIN session_owners
    /\ \E w \in Conns, v \in Conns :
         /\ pc[w] = "loop" /\ transport[w] = "closed" /\ OwnsNothing(session_owners, w)
         /\ v # w /\ v \in session_owners[rcv.m.target]
         /\ sent = <<[to |-> v, env |-> Env("event", "console", rcv.m.target, 0)]>>

CreatePcs == {"cs_lock", "cs_newctx", "cs_newpage"}
CapacityErrorTo(c, es) ==
    \E e \in SentTo(c, es) : e.type = "error" /\ e.name = "max_sessions"

\* C22: with room for one session, a creation attempted while a session is in the
\* registry is refused with the capacity error; one attempted once the session has left
\* the registry (its close may still be running) is not: it goes on to the provider and
\* succeeds when the provider calls do
C22_CloseFreesSlot ==
    [][\A c \in Conns :
         /\ (pc[c] \notin ClosePcs /\ pc'[c] \in ClosePcs) =>
               (sid'[c] \in sessions /\ sessions' = sessions \ {sid'[c]})
         /\ (CreationAttempt(c) /\ sessions # {}) =>
               /\ sessions' = sessions
               /\ IF pc[c] = "idle" THEN pc'[c] = "done"
                  ELSE pc'[c] = "loop" /\ CapacityErrorTo(c, sent')
         /\ (CreationAttempt(c) /\ sessions = {}) =>
               /\ ~CapacityErrorTo(c, sent')
               /\ \/ pc'[c] \in CreatePcs /\ sid'[c] = nextSid
                  \/ rcv'.m.opt = "bad_workspace"
         /\ (pc[c] \in CreatePcs /\ pc'[c] # pc[c]) =>
               /\ ~CapacityErrorTo(c, sent')
               /\ \/ pc'[c] \in CreatePcs
                  \/ sessions' = sessions \cup {sid[c]}
                  \/ \E e \in SentTo(c, sent') : e.type = "error" /\ e.name = "provider"
                  \/ pc'[c] = "done"
    ]_vars
\* the second session is in the registry while the close of the first, which made room
\* for it, is still running
C22_Witness ==
    /\ MAX_SESSIONS = 1
    /\ sessions = {2}
    /\ \E p \in Procs : pc[p] \in ClosePcs /\ sid[p] = 1

\* the session that wrote 'state.json' last has been closed, and connection c now sends
\* import_storage_state with path 'state.json' for another session, b, of the registry
ImportAfterClose(c, b) ==
    /\ rcv'.conn = c
    /\ rcv'.m.cmd = "import_storage_state"
    /\ rcv'.m.opt = "path"
    /\ b = Target(c, rcv'.m)
    /\ b \in sessions
    /\ storage.last.by # 0
    /\ storage.last.by \notin sessions
SameWorkspace(a, b) == storage.ws[a] = storage.ws[b]
ImportAccepted(c) == pc'[c] = "imp_close" /\ storage'.loaded[c] = storage.last.state
\* the import command of connection c, reading 'state.json', completes in this step
ImportCompletes(c) ==
    /\ pc[c] = "imp_newpage"
    /\ msg[c].opt = "path"
    /\ sessCtx'[sid[c]] # sessCtx[sid[c]]

StopAfterAwait == {"st_sessions", "st_pool", "st_browser", "st_provider", "done"} \cup ClosePcs

\* C24: stop() goes past the await of the cancelled cleanup task only when that task has
\* finished, and only stop() removes sessions after that; it closes the sessions it found
\* in the registry, turns to the pooled contexts when the registry is empty, closes the
\* browser when the pool is empty too and the provider after the browser; when stop()
\* has returned, registry and pool are empty
C24_StopOrder ==
    /\ [](pc[MAIN] \in StopAfterAwait => pc[SWEEPER] = "done")
    /\ [][(phase = "stopping" /\ sessions' # sessions) =>
             /\ pc[SWEEPER] = "done"
             /\ pc[MAIN] = "st_sessions"
             /\ shutdown.browser = "open"
             /\ \E s \in sessions : sessions' = sessions \ {s}]_vars
    /\ [][(pc[MAIN] = "st_await" /\ pc'[MAIN] # "st_await") =>
             shutdown'.todo = sessions]_vars
    /\ [](pc[MAIN] \in {"st_pool", "st_browser", "st_provider"} => sessions = {})
    /\ [](pc[MAIN] = "st_pool" => shutdown.browser = "open")
    /\ [](pc[MAIN] \in {"st_browser", "st_provider"} => context_pool = <<>>)
    /\ [](shutdown.browser = "closed" =>
             /\ sessions = {}
             /\ context_pool = <<>>
             /\ \A k \in Ctxs : ctxState[k] # "open")
    /\ [](shutdown.provider = "stopped" <=> phase = "stopped")
    /\ [](shutdown.provider = "stopped" => shutdown.browser = "closed")
    /\ [](phase = "stopped" => sessions = {} /\ context_pool = <<>>)

\* stop() is closing the last session it found in the registry while a context waits in
\* the pool; the cleanup task was cancelled in the middle of closing another session
C24_Witness ==
    /\ pc[MAIN] \in ClosePcs
    /\ shutdown.todo = {}
    /\ context_pool # <<>>
    /\ pc[SWEEPER] = "done"
    /\ \E k \in Ctxs :
         /\ ctxState[k] = "open"
         /\ k # ctx[MAIN]
         /\ \A i \in DOMAIN context_pool : context_pool[i] # k

\* C25: the resolver either fails with 'Invalid artifact filename' - and then the base
\* name of the supplied file name starts with '.' or contains '..' - or returns a path
\* whose parent is exactly the artifact directory, the last segment being the generated
\* name or the last segment of the supplied name
C25_ResolvedInsideDir ==
    artifact.via = "resolve" =>
       IF artifact.status = "invalid_filename"
       THEN /\ Supplied(artifact.path)
            /\ \/ StartsWithDot(Last(artifact.path.segs))
               \/ ContainsDotDot(Last(artifact.path.segs))
       ELSE /\ artifact.status = "ok"
            /\ Len(artifact.file) = Len(artifact.dir) + 1
            /\ Front(artifact.file) = artifact.dir

\* flow p cannot go on before flow q has come back from the provider: p waits for the
\* pool lock and q awaits context.close() holding it (lines 465-467)
WaitsFor(p, q) ==
    /\ pc[p] \in {"cs_lock", "cl_lock"}
    /\ pool_lock = q
    /\ pc[q] = "cl_closelocked"

\* C26: a flow that cannot go on while a command is blocked in the provider works on
\* the session of that command: a slow command delays no work on other sessions
C26_SlowCommandDelaysOwnSession ==
    \A p \in Procs, q \in Conns :
       (WaitsFor(p, q) /\ ret[q] = "command") => sid[p] = sid[q]

\* the commands of SpecTouch whose handler calls _get_session
LookupCmds == {"navigate", "event_stream"}
\* the sweep takes session s out of the registry in this step
SweepPops(s) == s \in sessions /\ s \notin sessions' /\ sid'[SWEEPER] = s /\ sid[SWEEPER] # s

CallsDone == {i \in DOMAIN retry.log : retry.log[i] \in {"ok", "fail", "other"}}
CallsFailed == {i \in DOMAIN retry.log : retry.log[i] = "fail"}
CallsMade == Cardinality(CallsDone) + (IF retry.at = "func" THEN 1 ELSE 0)

\* C28: async_retry calls func at most policy.attempts times; a call that succeeds is the
\* last one and its result is returned; once policy.attempts calls (at least one) have
\* failed the error of the last call is raised; on_retry is only called right after a
\* failed call that is not call number policy.attempts, and when on_retry is given no
\* call follows a failed call without an on_retry between them
C28_RetryContract ==
    /\ CallsMade <= retry.policy.attempts
    /\ \A i \in DOMAIN retry.log :
          retry.log[i] = "ok" =>
             /\ i = Len(retry.log)
             /\ retry.at = "returned"
             /\ retry.result = [kind |-> "value", of |-> Cardinality(CallsDone)]
    /\ retry.at = "returned" => (retry.log # <<>> /\ Last(retry.log) = "ok")
    /\ (retry.policy.attempts >= 1 /\ Cardinality(CallsFailed) = retry.policy.attempts) =>
          /\ retry.at = "raised"
          /\ Last(retry.log) = "fail"
          /\ retry.result = [kind |-> "error", of |-> retry.policy.attempts]
    /\ \A i \in DOMAIN retry.log :
          retry.log[i] = "on_retry" =>
             /\ retry.on_retry
             /\ i > 1
             /\ retry.log[i - 1] = "fail"
             /\ Cardinality({k \in CallsDone : k < i}) < retry.policy.attempts
    /\ \A i \in CallsFailed :
          (retry.on_retry /\ (i < Len(retry.log) \/ retry.at \in {"sleep", "func"})) =>
             (i < Len(retry.log) /\ retry.log[i + 1] = "on_retry")

\* every attempt of a policy with MaxAttempts attempts failed, on_retry was called between
\* them, and the error of the last call was raised
C28_Witness ==
    /\ retry.policy.attempts = MaxAttempts
    /\ retry.on_retry
    /\ retry.at = "raised"
    /\ Cardinality(CallsFailed) = MaxAttempts
    /\ Cardinality({i \in DOMAIN retry.log : retry.log[i] = "on_retry"}) = MaxAttempts - 1
    /\ retry.result = [kind |-> "error", of |-> MaxAttempts]

\* C29: while a flow - a close_session command, a connection's teardown, the sweep or
\* stop() - is in the release or close of a session's context, the session is still in
\* the registry: it is removed only after the release or close was attempted
C29_ReleaseBeforeRemoval ==
    \A p \in Procs : pc[p] \in ClosePcs => sid[p] \in sessions

\* C30: no context in the pool was created from an imported storage state; once the
\* server serves, a context enters the pool only from a session that is pool-eligible,
\* that is, created without HAR recording; and a pool-eligible session in the registry does not hold a
\* context created from an imported storage state
C30_PoolHoldsPlainContexts ==
    /\ [](\A k \in Pooled : ~storage.imported[k])
    /\ [][phase = "serving" =>
             \A k \in Pooled' \ Pooled :
                \E p \in Procs : ReleasedCtx(p) = k /\ pool_eligible[sid[p]]]_vars
    /\ [](\A s \in sessions : pool_eligible[s] => ~storage.imported[sessCtx[s]])


\* C31: the pool lock is held only across the pop from or the append to the pool: no
\* flow is suspended at a provider call holding it, and so no borrow or release waits
\* for the lock while another flow's provider call is outstanding
C31_LockOnlyAcrossMutation ==
    /\ pool_lock = NoLock
    /\ \A p \in Procs : pc[p] \notin {"cs_lock", "cl_lock"}


\* C33: start() leaves BROWSER_POOL_SIZE contexts in the pool when pooling is enabled,
\* and leaves the pool empty when HAR recording or video recording is enabled globally
C33_PrewarmUnlessRecording ==
    [][Start =>
         IF env.WS_HAR_ENABLED \/ env.PLAYWRIGHT_VIDEO_DIR THEN context_pool' = <<>>
         ELSE env.BROWSER_POOL_ENABLED => Len(context_pool') = BROWSER_POOL_SIZE]_vars


\* the steps _reset_context has to attempt on a context with these pages
ResetSteps(pages) ==
    {Step("clear_cookies", 0)}
    \cup {Step(s, pages[n]) : s \in {"evaluate", "goto"}, n \in 1..Len(pages)}
    \cup {Step("close", pages[n]) : n \in 2..Len(pages)}

\* C32: whatever step of a reset fails, when _reset_context has returned it has cleared
\* (or tried to clear) the cookies, has tried to clear the storage of and to blank every
\* page, and has tried to close every page but the first
C32_ResetCarriesOutEveryStep ==
    (reset.caller # "" /\ reset.at \notin ResetPcs)
       => ResetSteps(reset.before) \subseteq reset.tried


\* C34: a context in the pool has no page
C34_PooledContextHasNoPage ==
    reset.where = "pool" => reset.pages = <<>>


\* a command of the model that lacks its required argument, and the error it is to get
MissingArg(m) ==
    /\ m.shape = "ok"
    /\ \/ m.cmd = "navigate" /\ m.opt = "no_url"
       \/ m.cmd = "import_storage_state" /\ m.opt = "no_state"
ArgError(m) == IF m.cmd = "navigate" THEN "url_required" ELSE "state_required"

\* C35: a command without its required argument, addressed to a session of the
\* registry, is answered with the error naming the argument; no provider call is
\* started (the flow is back in the read loop), the target session keeps its context,
\* its data and its metadata and has its idle time reset, and nothing else changes
C35_MissingArgumentFails ==
    [][(rcv'.conn # 0 /\ MissingArg(rcv'.m) /\ Target(rcv'.conn, rcv'.m) \in sessions)
         => /\ ErrorEnv(rcv'.m, ArgError(rcv'.m)) \in SentTo(rcv'.conn, sent')
            /\ pc' = pc
            /\ UNCHANGED <<sessions, sessCtx, pool_eligible, event_stream_enabled,
                           ctxState, nextCtx, context_pool, storage, ownVars>>
            /\ idle' = [idle EXCEPT ![Target(rcv'.conn, rcv'.m)] = 0]]_vars

\* a command without its argument has just been refused while its session had been
\* idle, next to another session that has been idle too
C35_Witness ==
    /\ rcv.conn # 0
    /\ MissingArg(rcv.m)
    /\ Target(rcv.conn, rcv.m) \in sessions
    /\ HasError(ArgError(rcv.m))
    /\ idle[Target(rcv.conn, rcv.m)] = 0
    /\ \E x \in sessions : x # Target(rcv.conn, rcv.m) /\ idle[x] > 0


\* no create, close, import or sweep step is in progress
Quiescent == \A p \in Procs : pc[p] \in {"idle", "loop", "done", "sleep"}

\* C36: when no create, close, import or sweep step is in progress, every open context
\* is in the pool or is the context of exactly one session of the registry
C36_NoContextLeak ==
    Quiescent =>
       \A k \in Ctxs :
          ctxState[k] = "open" =>
             Cardinality({s \in sessions : sessCtx[s] = k})
                + Cardinality({n \in 1..Len(context_pool) : context_pool[n] = k}) = 1


\* C37: the sweep takes a session out of the registry only when the session's idle time
\* is above the timeout at that moment
C37_SweepClosesOnlyExpired ==
    [][\A s \in Sids : SweepPops(s) => IsExpired(s)]_vars


\* the finally block of connection c starts in this step (line 607 pops the implicit
\* session), or goes on after an await of its _close_session
TeardownStarts(c) == client_sessions[c] # 0 /\ client_sessions'[c] = 0
TeardownResumes(c) == ret[c] = "teardown" /\ pc[c] \in ClosePcs /\ pc'[c] # pc[c]

\* C38: the finally block of a connection takes the connection's implicit session out
\* of the registry and no other session; every session that stays in the registry keeps
\* its context, its metadata and its idle time, and its context is not closed; when the
\* block ends the connection has left every owner set, and no owner set has changed
\* otherwise
C38_TeardownClosesImplicitOnly ==
    [][\A c \in Conns :
         /\ TeardownStarts(c) => sessions' = sessions \ {client_sessions[c]}
         /\ TeardownResumes(c) => sessions' = sessions
         /\ (TeardownStarts(c) \/ TeardownResumes(c)) =>
               /\ \A s \in sessions' :
                     /\ sessCtx'[s] = sessCtx[s]
                     /\ pool_eligible'[s] = pool_eligible[s]
                     /\ event_stream_enabled'[s] = event_stream_enabled[s]
                     /\ idle'[s] = idle[s]
                     /\ ctxState'[sessCtx[s]] = ctxState[sessCtx[s]]
               /\ \A s \in Sids :
                     Owners(session_owners', s) =
                        IF pc'[c] = "done" THEN Owners(session_owners, s) \ {c}
                        ELSE Owners(session_owners, s)]_vars

\* the handler of c has ended and its implicit session is gone, a session c created
\* is still in the registry and has no owner, next to the session of another connection
C38_Witness ==
    \E c \in Conns, d \in Conns :
       /\ c # d
       /\ pc[c] = "done"
       /\ client_sessions[d] \in sessions
       /\ Owners(session_owners, client_sessions[d]) = {d}
       /\ \E s \in sessions : s # client_sessions[d] /\ Owners(session_owners, s) = {}
       /\ \E s \in Sids \ sessions : s < nextSid /\ sessCtx[s] # 0


\* C39: a command read on connection c leaves every session alone that c neither got
\* as its implicit session nor created (c is in its owner set): the session stays in
\* the registry with its context, metadata and idle time, and the command's flow does
\* not go to work on it
C39_ForeignSessionsUntouched ==
    [][\A c \in Conns :
         (rcv'.conn = c /\ rcv'.m.shape = "ok") =>
            \A s \in sessions :
               (s # client_sessions[c] /\ c \notin Owners(session_owners, s)) =>
                  /\ s \in sessions'
                  /\ sid'[c] # s
                  /\ sessCtx'[s] = sessCtx[s]
                  /\ event_stream_enabled'[s] = event_stream_enabled[s]
                  /\ idle'[s] = idle[s]]_vars


\* C40: every context in the pool is open
C40_PooledContextsOpen ==
    \A n \in 1..Len(context_pool) : ctxState[context_pool[n]] = "open"

====
